---- MODULE Spec2Model ----
(***************************************************************************)
(* NetBox / Netmiko device importer: the reconciliation engine.            *)
(*                                                                         *)
(* ProposalEngine (build, _diff, _action_and_diff, _load_state) and        *)
(* NetboxDeviceBuilder.apply with its helpers, run against an inventory    *)
(* API that offers get / filter / create / update per entity kind.         *)
(*                                                                         *)
(* A remote collection is a sequence of records; the identifier of a       *)
(* record is its position (records are never deleted).  A reference to a   *)
(* site, role, device type or manufacturer is kept by slug (slugs are      *)
(* unique there), a reference to a device, module bay, module type or      *)
(* interface by identifier.                                                *)
(***************************************************************************)
EXTENDS Integers, Sequences, FiniteSets, TLC

VARIABLES
    inventory,      \* the NormalizedInventory handed to apply
    nb,             \* the remote inventory system
    pc,             \* position inside NetboxDeviceBuilder.apply
    batch,          \* the plan batch of the running apply call
    post_batch,     \* the post-apply verification batch
    dependencies,   \* result of _resolve_device_dependencies
    device_record,  \* identifier of the device record apply works under
    module_bay_cache,
    interface_cache,
    idx,            \* next proposal of the current pass
    calls,          \* create / update calls issued by the running apply call
    error,          \* the error the running apply call raised, "" if none
    nb0,            \* remote state when the running apply call started
    history,        \* outcome of every earlier apply call
    lag_trace,      \* toAdd / toRemove computed by _apply_lag_membership
    config,         \* the settings NetboxDeviceBuilder was constructed with
    dry,            \* what the last dry_run returned, until apply is called
    classified,     \* the RulesEngine, the string it was given and its answer
    collected,      \* the device's command output and what harvest made of it
    entry           \* a run of an entry point: its inputs, position and outcome

vars == <<inventory, nb, pc, batch, post_batch, dependencies, device_record,
          module_bay_cache, interface_cache, idx, calls, error, nb0, history,
          lag_trace, config, dry, classified, collected, entry>>

-----------------------------------------------------------------------------
(* Bounds of the model *)

MaxPorts == 3
MaxBays == 1
MaxRuns == 2

-----------------------------------------------------------------------------
(* Python values *)

\* None, for a field whose values are strings
None == "None"
\* None, where a dict is expected (Proposal.current, Proposal.diff)
NoDict == [absent |-> TRUE]
\* None, where a record or its identifier is expected
NoId == 0

\* fields whose value may be None; the others always carry a value
NullableKeys == {"site", "role", "device_type", "manufacturer", "serial",
                 "asset_tag", "label", "position", "bay_name",
                 "module_type_model", "status", "description", "lag", "type",
                 "name"}

IsNone(k, v) == k \in NullableKeys /\ v = None

\* Python truthiness of an optional string
Truthy(v) == v # None /\ v # ""

Restrict(f, S) == [k \in S |-> f[k]]

\* dict.get(key)
DictGet(d, k) == IF k \in DOMAIN d THEN d[k] ELSE None

\* current.get(key) != value
Differs(current, k, v) ==
    IF k \in DOMAIN current THEN current[k] # v ELSE ~IsNone(k, v)

Range(s) == {s[i] : i \in DOMAIN s}

-----------------------------------------------------------------------------
(* Names and their order (Python compares strings by code point) *)

PortNames == <<"1/1/1", "1/1/2", "1/1/3", "1/1/4">>
BayNames == <<"Card A", "Card B">>
BayPositions == <<"A", "B">>
LagNames == <<"LAG 1", "LAG 2">>
ModelNames == <<"mda-imm-24", "mda-xc-12">>

MdaNames == <<"MDA 1", "MDA 2">>

NameOrder == PortNames \o BayNames \o LagNames \o MdaNames

NameRank(n) == CHOOSE i \in 1..Len(NameOrder) : NameOrder[i] = n

NameLess(a, b) == NameRank(a) < NameRank(b)

\* sorted(S) for a set of names
RECURSIVE SortedNames(_)
SortedNames(S) ==
    IF S = {} THEN <<>>
    ELSE LET m == CHOOSE x \in S : \A y \in S : ~NameLess(y, x)
         IN <<m>> \o SortedNames(S \ {m})

-----------------------------------------------------------------------------
(* The inventory API: get / filter per entity kind *)

\* get(filter): the record's identifier, NoId when absent
FirstId(S) == IF S = {} THEN NoId ELSE CHOOSE i \in S : \A j \in S : i <= j

DevicesGet(nbv, name) ==
    FirstId({i \in DOMAIN nbv.devices : nbv.devices[i].name = name})

ModuleBaysGet(nbv, device_id, name) ==
    FirstId({i \in DOMAIN nbv.module_bays :
                /\ nbv.module_bays[i].device = device_id
                /\ nbv.module_bays[i].name = name})

InterfacesGet(nbv, device_id, name) ==
    FirstId({i \in DOMAIN nbv.interfaces :
                /\ nbv.interfaces[i].device = device_id
                /\ nbv.interfaces[i].name = name})

\* filter(...): the identifiers of the records that match
ModuleBaysFilter(nbv, device_id) ==
    {i \in DOMAIN nbv.module_bays : nbv.module_bays[i].device = device_id}

ModulesFilter(nbv, device_id) ==
    {i \in DOMAIN nbv.modules : nbv.modules[i].device = device_id}

ModulesFilterBay(nbv, device_id, bay_id) ==
    {i \in DOMAIN nbv.modules :
        /\ nbv.modules[i].device = device_id
        /\ nbv.modules[i].module_bay = bay_id}

InterfacesFilter(nbv, device_id) ==
    {i \in DOMAIN nbv.interfaces : nbv.interfaces[i].device = device_id}

InterfacesFilterLag(nbv, device_id, lag_id) ==
    {i \in DOMAIN nbv.interfaces :
        /\ nbv.interfaces[i].device = device_id
        /\ nbv.interfaces[i].lag = lag_id}

ModuleTypesFilter(nbv, model) ==
    {i \in DOMAIN nbv.module_types : nbv.module_types[i].model = model}

\* manufacturer slug of a device type, None when the type is unknown or has none
DeviceTypeManufacturer(nbv, slug) ==
    LET S == {t \in nbv.device_types : t.slug = slug}
    IN IF S = {} THEN None ELSE (CHOOSE t \in S : TRUE).manufacturer

\* Record.serialize(), read through the accessors the engine applies to it
SerializeModule(nbv, r) ==
    [module_bay |-> IF r.module_bay = NoId THEN None
                    ELSE nbv.module_bays[r.module_bay].name,
     module_type |-> IF r.module_type = NoId THEN None
                     ELSE nbv.module_types[r.module_type].model,
     status |-> r.status,
     serial |-> r.serial]

SerializeInterface(nbv, r) ==
    [name |-> r.name, type |-> r.type, enabled |-> r.enabled,
     description |-> r.description,
     lag |-> IF r.lag = NoId THEN None ELSE nbv.interfaces[r.lag].name]

-----------------------------------------------------------------------------
(* ProposalEngine *)

\* the last of a set of identifiers: a dict filled in listing order keeps it
LastId(S) == CHOOSE i \in S : \A j \in S : j <= i

_load_state(nbv, device_id) ==
    LET bays == ModuleBaysFilter(nbv, device_id)
        mods == {i \in ModulesFilter(nbv, device_id) :
                    nbv.modules[i].module_bay # NoId}
        ifs == InterfacesFilter(nbv, device_id)
        bayNames == {nbv.module_bays[i].name : i \in bays}
        modBays == {nbv.module_bays[nbv.modules[i].module_bay].name : i \in mods}
        ifNames == {nbv.interfaces[i].name : i \in ifs}
        members(l) == {nbv.interfaces[i].name : i \in
                         {j \in ifs : nbv.interfaces[j].lag # NoId
                            /\ nbv.interfaces[nbv.interfaces[j].lag].name = l}}
        lagNames == {nbv.interfaces[nbv.interfaces[j].lag].name : j \in
                         {j \in ifs : nbv.interfaces[j].lag # NoId}}
    IN [module_bays |-> [n \in bayNames |->
            nbv.module_bays[LastId({i \in bays : nbv.module_bays[i].name = n})]],
        modules |-> [n \in modBays |->
            SerializeModule(nbv, nbv.modules[LastId({i \in mods :
                nbv.module_bays[nbv.modules[i].module_bay].name = n})])],
        interfaces |-> [n \in ifNames |->
            SerializeInterface(nbv, nbv.interfaces[LastId({i \in ifs :
                nbv.interfaces[i].name = n})])],
        lag_membership |-> [l \in lagNames |-> members(l)]]

\* the state when no remote device exists
NoState == [module_bays |-> <<>>, modules |-> <<>>, interfaces |-> <<>>,
            lag_membership |-> <<>>]

\* a variant that reports every non-null desired field, equal or not
_diff_unfiltered(desired, current) ==
    Restrict(desired, {k \in DOMAIN desired : ~IsNone(k, desired[k])})

\* a variant that keeps the None-valued fields of an object to create
_diff_keep_null(desired, current) ==
    IF current = NoDict
    THEN desired
    ELSE Restrict(desired, {k \in DOMAIN desired : Differs(current, k, desired[k])})

_diff(desired, current) ==
    IF current = NoDict
    THEN Restrict(desired, {k \in DOMAIN desired : ~IsNone(k, desired[k])})
    ELSE Restrict(desired, {k \in DOMAIN desired : Differs(current, k, desired[k])})

_action_and_diff(desired, current, exists) ==
    IF ~exists
    THEN LET diff == _diff(desired, NoDict)
         IN [action |-> "create", diff |-> IF diff # <<>> THEN diff ELSE desired]
    ELSE LET diff == _diff(desired, current)
         IN IF diff # <<>> THEN [action |-> "update", diff |-> diff]
            ELSE [action |-> "noop", diff |-> NoDict]

Proposal(ad, model, identifier, desired, current) ==
    [action |-> ad.action, model |-> model, identifier |-> identifier,
     desired |-> desired, current |-> current, diff |-> ad.diff]

_device_proposal(nbv, inv, existing_device) ==
    LET device == inv.device
        desired == [name |-> device.name, status |-> device.status,
                    site |-> device.site_slug, role |-> device.role_slug,
                    device_type |-> device.device_type_slug,
                    manufacturer |-> device.manufacturer_slug,
                    serial |-> device.serial, asset_tag |-> device.asset_tag,
                    tags |-> device.tags, custom_fields |-> device.custom_fields]
        data == nbv.devices[existing_device]
        current == IF existing_device = NoId THEN NoDict
                   ELSE [name |-> data.name, status |-> data.status,
                         site |-> data.site, role |-> data.role,
                         device_type |-> data.device_type,
                         manufacturer |->
                             DeviceTypeManufacturer(nbv, data.device_type),
                         serial |-> data.serial, asset_tag |-> data.asset_tag,
                         tags |-> data.tags, custom_fields |-> data.custom_fields]
    IN Proposal(_action_and_diff(desired, current, existing_device # NoId),
                "device", device.name, desired, current)

_module_bay_proposal(bay, state) ==
    LET desired == [name |-> bay.name,
                    label |-> IF Truthy(bay.label) THEN bay.label ELSE bay.name,
                    position |-> bay.position]
        exists == bay.name \in DOMAIN state.module_bays
        existing == state.module_bays[bay.name]
        current == IF ~exists THEN NoDict
                   ELSE [name |-> existing.name, label |-> existing.label,
                         position |-> existing.position]
    IN Proposal(_action_and_diff(desired, current, exists),
                "module_bay", bay.name, desired, current)

_module_proposal(module, state) ==
    LET desired == [bay_name |-> module.bay_name,
                    module_type_model |-> module.module_type_model,
                    status |-> module.status, serial |-> module.serial]
        exists == module.bay_name \in DOMAIN state.modules
        existing == state.modules[module.bay_name]
        current == IF ~exists THEN NoDict
                   ELSE [bay_name |-> existing.module_bay,
                         module_type_model |-> existing.module_type,
                         status |-> existing.status, serial |-> existing.serial]
    IN Proposal(_action_and_diff(desired, current, exists), "module",
                module.bay_name \o ":" \o module.module_type_model,
                desired, current)

\* sort key (iface.type_slug != "lag", iface.name): False sorts before True
IfaceKeyLess(a, b) ==
    LET ka == a.type_slug # "lag"
        kb == b.type_slug # "lag"
    IN \/ (~ka /\ kb)
       \/ (ka = kb /\ NameLess(a.name, b.name))

\* sorted(interfaces, key=...): stable
RECURSIVE InsertSorted(_, _)
InsertSorted(sorted, x) ==
    IF sorted = <<>> THEN <<x>>
    ELSE IF IfaceKeyLess(x, Head(sorted)) THEN <<x>> \o sorted
         ELSE <<Head(sorted)>> \o InsertSorted(Tail(sorted), x)

RECURSIVE SortInterfacesRev(_)
SortInterfacesRev(rev) ==
    IF rev = <<>> THEN <<>>
    ELSE InsertSorted(SortInterfacesRev(Tail(rev)), Head(rev))

Reverse(s) == [i \in 1..Len(s) |-> s[Len(s) + 1 - i]]

SortedInterfaces(interfaces) == SortInterfacesRev(Reverse(interfaces))

_interface_proposal(iface, state) ==
    LET base == [type |-> iface.type_slug, enabled |-> iface.enabled,
                 description |-> iface.description]
        desired == IF Truthy(iface.lag)
                   THEN [k \in DOMAIN base \cup {"lag"} |->
                            IF k = "lag" THEN iface.lag ELSE base[k]]
                   ELSE base
        exists == iface.name \in DOMAIN state.interfaces
        existing == state.interfaces[iface.name]
        cbase == [type |-> existing.type, enabled |-> existing.enabled,
                  description |-> existing.description]
        current == IF ~exists THEN NoDict
                   ELSE IF Truthy(existing.lag)
                        THEN [k \in DOMAIN cbase \cup {"lag"} |->
                                 IF k = "lag" THEN existing.lag ELSE cbase[k]]
                        ELSE cbase
    IN Proposal(_action_and_diff(desired, current, exists),
                "interface", iface.name, desired, current)

\* a variant that proposes one interface of each type only
_interfaces_proposals_per_type(interfaces, state) ==
    LET sorted_interfaces == SortedInterfaces(interfaces)
        first == {i \in DOMAIN sorted_interfaces :
                     \A j \in 1..(i - 1) :
                         sorted_interfaces[j].type_slug # sorted_interfaces[i].type_slug}
        kept == SelectSeq([i \in DOMAIN sorted_interfaces |-> i], LAMBDA i : i \in first)
    IN [i \in DOMAIN kept |-> _interface_proposal(sorted_interfaces[kept[i]], state)]

_interfaces_proposals(interfaces, state) ==
    LET sorted_interfaces == SortedInterfaces(interfaces)
    IN [i \in 1..Len(sorted_interfaces) |->
            _interface_proposal(sorted_interfaces[i], state)]

_lag_proposal(lag, state) ==
    LET desired_members == SortedNames(Range(lag.members))
        current_members ==
            SortedNames(IF lag.name \in DOMAIN state.lag_membership
                        THEN state.lag_membership[lag.name] ELSE {})
        current == IF current_members # <<>>
                   THEN [members |-> current_members] ELSE NoDict
        exists == lag.name \in DOMAIN state.interfaces
    IN Proposal(_action_and_diff([members |-> desired_members], current, exists),
                "lag", lag.name, [members |-> desired_members], current)

_lag_proposals(lags, state) ==
    [i \in 1..Len(lags) |-> _lag_proposal(lags[i], state)]

build(nbv, inv) ==
    LET existing_device == DevicesGet(nbv, inv.device.name)
        state == IF existing_device # NoId
                 THEN _load_state(nbv, existing_device) ELSE NoState
    IN [device |-> _device_proposal(nbv, inv, existing_device),
        module_bays |-> [i \in 1..Len(inv.module_bays) |->
                            _module_bay_proposal(inv.module_bays[i], state)],
        modules |-> [i \in 1..Len(inv.modules) |->
                        _module_proposal(inv.modules[i], state)],
        interfaces |-> _interfaces_proposals(inv.interfaces, state),
        lags |-> _lag_proposals(inv.lags, state)]

\* a request to an endpoint of the remote system
Request(op, endpoint) == [op |-> op, endpoint |-> endpoint]

\* the requests of _load_state
_load_state_requests ==
    <<Request("filter", "module_bays"), Request("filter", "modules"),
      Request("filter", "interfaces")>>

\* a variant that registers the device when the remote system has none
build_requests_registering(nbv, inv) ==
    IF DevicesGet(nbv, inv.device.name) # NoId
    THEN <<Request("get", "devices")>> \o _load_state_requests
    ELSE <<Request("get", "devices"), Request("create", "devices")>>

\* the requests of build, in program order
build_requests(nbv, inv) ==
    IF DevicesGet(nbv, inv.device.name) # NoId
    THEN <<Request("get", "devices")>> \o _load_state_requests
    ELSE <<Request("get", "devices")>>

\* ProposalBatch.actions()
actions(b) == <<b.device>> \o b.module_bays \o b.modules \o b.interfaces \o b.lags

-----------------------------------------------------------------------------
(* The inventory API: create / update *)

DeviceDefaults ==
    [name |-> None, status |-> None, site |-> None, role |-> None,
     device_type |-> None, serial |-> None, asset_tag |-> None,
     tags |-> <<>>, custom_fields |-> <<>>]

ModuleBayDefaults ==
    [device |-> NoId, name |-> None, label |-> None, position |-> None]

ModuleDefaults ==
    [device |-> NoId, module_bay |-> NoId, module_type |-> NoId,
     status |-> None, serial |-> None]

InterfaceDefaults ==
    [device |-> NoId, name |-> None, type |-> None, enabled |-> TRUE,
     description |-> None, lag |-> NoId]

\* dict.update(payload) on the fields of a record
Merge(rec, payload) ==
    [k \in DOMAIN rec |-> IF k \in DOMAIN payload THEN payload[k] ELSE rec[k]]

Call(op, kind, id, payload) ==
    [op |-> op, kind |-> kind, id |-> id, payload |-> payload]

\* the calls of one step of apply, labelled with that step
Issued(step, cs) ==
    [i \in DOMAIN cs |-> [op |-> cs[i].op, kind |-> cs[i].kind, id |-> cs[i].id,
                          payload |-> cs[i].payload, step |-> step]]

\* endpoint.create(payload): a new record with a fresh identifier
Create(nbv, kind, defaults, payload) ==
    LET id == Len(nbv[kind]) + 1
    IN [nb |-> [nbv EXCEPT ![kind] = Append(@, Merge(defaults, payload))],
        record |-> id,
        calls |-> <<Call("create", kind, id, payload)>>]

\* record.update(payload): only the fields of the payload change
Update(nbv, kind, id, payload) ==
    [nb |-> [nbv EXCEPT ![kind][id] = Merge(@, payload)],
     record |-> id,
     calls |-> <<Call("update", kind, id, payload)>>]

\* a helper's result when it writes nothing
Pass(nbv, id) == [nb |-> nbv, record |-> id, calls |-> <<>>]

NoError == [type |-> "none", what |-> ""]
Raise(type, what) == [type |-> type, what |-> what]

Ok(r) == [nb |-> r.nb, record |-> r.record, calls |-> r.calls, error |-> NoError]
Fail(nbv, type, what) ==
    [nb |-> nbv, record |-> NoId, calls |-> <<>>, error |-> Raise(type, what)]

-----------------------------------------------------------------------------
(* NetboxDeviceBuilder: dependency resolution and the per-proposal helpers *)

NoDependencies ==
    [site |-> None, role |-> None, device_type |-> None, manufacturer |-> None]

\* a variant that takes the site for granted
_resolve_device_dependencies_unchecked_site(nbv, device) ==
    IF device.role_slug \notin nbv.device_roles
    THEN [error |-> Raise("role", device.role_slug),
          dependencies |-> NoDependencies]
    ELSE IF device.device_type_slug \notin {t.slug : t \in nbv.device_types}
    THEN [error |-> Raise("device_type", device.device_type_slug),
          dependencies |-> NoDependencies]
    ELSE [error |-> NoError,
          dependencies |->
             [site |-> device.site_slug, role |-> device.role_slug,
              device_type |-> device.device_type_slug,
              manufacturer |-> IF Truthy(device.manufacturer_slug)
                               THEN device.manufacturer_slug ELSE None]]

_resolve_device_dependencies(nbv, device) ==
    LET dt_manufacturer == DeviceTypeManufacturer(nbv, device.device_type_slug)
    IN IF device.site_slug \notin nbv.sites
       THEN [error |-> Raise("site", device.site_slug),
             dependencies |-> NoDependencies]
       ELSE IF device.role_slug \notin nbv.device_roles
       THEN [error |-> Raise("role", device.role_slug),
             dependencies |-> NoDependencies]
       ELSE IF device.device_type_slug \notin {t.slug : t \in nbv.device_types}
       THEN [error |-> Raise("device_type", device.device_type_slug),
             dependencies |-> NoDependencies]
       ELSE IF Truthy(device.manufacturer_slug)
               /\ device.manufacturer_slug \notin nbv.manufacturers
       THEN [error |-> Raise("manufacturer", device.manufacturer_slug),
             dependencies |-> NoDependencies]
       ELSE IF Truthy(device.manufacturer_slug) /\ Truthy(dt_manufacturer)
               /\ dt_manufacturer # device.manufacturer_slug
       THEN [error |-> Raise("manufacturer_mismatch", ""),
             dependencies |-> NoDependencies]
       ELSE [error |-> NoError,
             dependencies |->
                [site |-> device.site_slug, role |-> device.role_slug,
                 device_type |-> device.device_type_slug,
                 manufacturer |-> IF Truthy(device.manufacturer_slug)
                                  THEN device.manufacturer_slug ELSE None]]

DevicePayloadKeys ==
    {"name", "status", "site", "role", "device_type", "serial", "asset_tag",
     "tags", "custom_fields"}

_build_device_payload(data, deps) ==
    [k \in DOMAIN data \cap DevicePayloadKeys |->
        IF k \in {"site", "role", "device_type"} THEN deps[k] ELSE data[k]]

\* a variant that rewrites an existing device whatever the action
_apply_device_rewrite(nbv, proposal, deps) ==
    LET existing == DevicesGet(nbv, proposal.identifier)
    IN IF proposal.action = "create"
       THEN Ok(Create(nbv, "devices", DeviceDefaults,
                      _build_device_payload(proposal.desired, deps)))
       ELSE IF existing = NoId
       THEN Fail(nbv, "device_not_found", proposal.identifier)
       ELSE Ok(Update(nbv, "devices", existing,
                      _build_device_payload(
                          IF proposal.diff = NoDict THEN proposal.desired
                          ELSE proposal.diff, deps)))

\* a variant that refuses to update a device changed since the plan
_apply_device_guarded(nbv, proposal, deps) ==
    LET existing == DevicesGet(nbv, proposal.identifier)
        changed == \E k \in {"status", "serial", "asset_tag"} :
                       nbv.devices[existing][k] # proposal.current[k]
    IN IF proposal.action = "create"
       THEN Ok(Create(nbv, "devices", DeviceDefaults,
                      _build_device_payload(proposal.desired, deps)))
       ELSE IF existing = NoId
       THEN Fail(nbv, "device_not_found", proposal.identifier)
       ELSE IF proposal.action = "update" /\ changed
       THEN Fail(nbv, "conflict", proposal.identifier)
       ELSE IF proposal.action = "update"
       THEN LET payload == _build_device_payload(
                               IF proposal.diff = NoDict THEN <<>>
                               ELSE proposal.diff, deps)
            IN IF payload # <<>>
               THEN Ok(Update(nbv, "devices", existing, payload))
               ELSE Ok(Pass(nbv, existing))
       ELSE Ok(Pass(nbv, existing))

_apply_device(nbv, proposal, deps) ==
    LET existing == DevicesGet(nbv, proposal.identifier)
    IN IF proposal.action = "create"
       THEN Ok(Create(nbv, "devices", DeviceDefaults,
                      _build_device_payload(proposal.desired, deps)))
       ELSE IF existing = NoId
       THEN Fail(nbv, "device_not_found", proposal.identifier)
       ELSE IF proposal.action = "update"
       THEN LET payload == _build_device_payload(
                               IF proposal.diff = NoDict THEN <<>>
                               ELSE proposal.diff, deps)
            IN IF payload # <<>>
               THEN Ok(Update(nbv, "devices", existing, payload))
               ELSE Ok(Pass(nbv, existing))
       ELSE Ok(Pass(nbv, existing))

ModuleBayKeys == {"name", "label", "position"}

_apply_module_bay(nbv, device, proposal) ==
    LET existing == ModuleBaysGet(nbv, device, proposal.identifier)
        desired == proposal.desired
        create_payload ==
            [k \in {k \in DOMAIN desired \cap ModuleBayKeys :
                        ~IsNone(k, desired[k])} |-> desired[k]]
        data == [k \in {"device"} \cup DOMAIN create_payload |->
                    IF k = "device" THEN device ELSE create_payload[k]]
        diff == IF proposal.diff = NoDict THEN <<>> ELSE proposal.diff
        update_payload == Restrict(diff, DOMAIN diff \cap ModuleBayKeys)
    IN IF proposal.action = "create"
       THEN Ok(Create(nbv, "module_bays", ModuleBayDefaults, data))
       ELSE IF existing = NoId
       THEN IF proposal.action = "noop" THEN Ok(Pass(nbv, NoId))
            ELSE Fail(nbv, "module_bay_not_found", proposal.identifier)
       ELSE IF proposal.action = "update" /\ update_payload # <<>>
       THEN Ok(Update(nbv, "module_bays", existing, update_payload))
       ELSE Ok(Pass(nbv, existing))

ModuleTypeLimit == 5

\* the first n identifiers of a listing
FirstN(S, n) == {i \in S : Cardinality({j \in S : j < i}) < n}

\* the last of a set of identifiers, NoId when there is none
FinalId(S) == IF S = {} THEN NoId ELSE CHOOSE i \in S : \A j \in S : j <= i

\* a variant that takes the last candidate
_find_module_type_last(nbv, model, manufacturer) ==
    LET listed == FirstN(ModuleTypesFilter(nbv, model), ModuleTypeLimit)
        candidates == IF Truthy(manufacturer)
                      THEN {i \in listed :
                               nbv.module_types[i].manufacturer = manufacturer}
                      ELSE listed
    IN IF ~Truthy(model) THEN NoId ELSE FinalId(candidates)

\* identifier of the module type, NoId when the lookup raises
_find_module_type(nbv, model, manufacturer) ==
    LET listed == FirstN(ModuleTypesFilter(nbv, model), ModuleTypeLimit)
        candidates == IF Truthy(manufacturer)
                      THEN {i \in listed :
                               nbv.module_types[i].manufacturer = manufacturer}
                      ELSE listed
    IN IF ~Truthy(model) THEN NoId ELSE FirstId(candidates)

\* cache.get(name): NoId when the name was never cached
CacheGet(cache, name) == IF name \in DOMAIN cache THEN cache[name] ELSE NoId

\* cache[name] = record
CachePut(cache, name, id) ==
    [n \in DOMAIN cache \cup {name} |-> IF n = name THEN id ELSE cache[n]]

WithCache(r, cache) ==
    [nb |-> r.nb, record |-> r.record, calls |-> r.calls, error |-> r.error,
     cache |-> cache]

_apply_module(nbv, device, proposal, deps, module_bays) ==
    LET bay_name == proposal.desired.bay_name
        module_type_model == proposal.desired.module_type_model
        cached == CacheGet(module_bays, bay_name)
        module_bay == IF cached # NoId THEN cached
                      ELSE ModuleBaysGet(nbv, device, bay_name)
        cache == IF cached # NoId THEN module_bays
                 ELSE CachePut(module_bays, bay_name, module_bay)
        manufacturer == deps.manufacturer
        diff == IF proposal.diff = NoDict THEN <<>> ELSE proposal.diff
        needs_module_type ==
            \/ proposal.action = "create"
            \/ ("module_type_model" \in DOMAIN diff
                    /\ diff.module_type_model # None)
        module_type == _find_module_type(nbv, module_type_model, manufacturer)
        existing == FirstId(ModulesFilterBay(nbv, device, module_bay))
        desired == proposal.desired
        base == [device |-> device, module_bay |-> module_bay,
                 module_type |-> module_type]
        extra == {k \in {"status", "serial"} :
                    IF k = "status" THEN Truthy(desired.status)
                    ELSE desired.serial # None}
        payload == [k \in DOMAIN base \cup extra |->
                        IF k \in DOMAIN base THEN base[k] ELSE desired[k]]
        update_keys == DOMAIN diff \cap {"module_type_model", "status", "serial"}
        update_payload ==
            [k \in {IF x = "module_type_model" THEN "module_type" ELSE x :
                        x \in update_keys} |->
                IF k = "module_type" THEN module_type ELSE diff[k]]
    IN IF module_bay = NoId
       THEN WithCache(Fail(nbv, "module_bay_not_found", bay_name), module_bays)
       ELSE IF needs_module_type /\ module_type = NoId
       THEN WithCache(Fail(nbv, "module_type", module_type_model), cache)
       ELSE IF proposal.action = "create"
       THEN WithCache(Ok(Create(nbv, "modules", ModuleDefaults, payload)), cache)
       ELSE IF existing = NoId
       THEN IF proposal.action = "noop"
            THEN WithCache(Ok(Pass(nbv, NoId)), cache)
            ELSE WithCache(Fail(nbv, "module_not_found", proposal.identifier),
                           cache)
       ELSE IF proposal.action = "update"
       THEN IF "module_type_model" \in DOMAIN diff /\ module_type = NoId
            THEN WithCache(Fail(nbv, "module_type", module_type_model), cache)
            ELSE IF update_payload # <<>>
            THEN WithCache(Ok(Update(nbv, "modules", existing, update_payload)),
                           cache)
            ELSE WithCache(Ok(Pass(nbv, existing)), cache)
       ELSE WithCache(Ok(Pass(nbv, existing)), cache)

\* a variant that writes the identity fields on every call
to_payload_identity(nbv, device, proposal, cache, source, include_identity) ==
    LET lag_name == DictGet(source, "lag")
        has_lag == "lag" \in DOMAIN source
        cached == CacheGet(cache, lag_name)
        lag_iface == IF cached # NoId THEN cached
                     ELSE InterfacesGet(nbv, device, lag_name)
        keys == {"device", "name"}
                    \cup (DOMAIN source
                            \cap {"type", "enabled", "description", "lag"})
        payload == [k \in keys |->
                       CASE k = "device" -> device
                         [] k = "name" -> proposal.identifier
                         [] k = "lag" -> IF Truthy(lag_name) THEN lag_iface
                                         ELSE NoId
                         [] OTHER -> source[k]]
    IN IF has_lag /\ Truthy(lag_name) /\ lag_iface = NoId
       THEN [error |-> Raise("lag_reference", lag_name), payload |-> <<>>,
             cache |-> cache]
       ELSE [error |-> NoError, payload |-> payload,
             cache |-> IF has_lag /\ Truthy(lag_name)
                       THEN CachePut(cache, lag_name, lag_iface) ELSE cache]

\* a variant that writes no LAG reference when the name is not found
to_payload_lenient(nbv, device, proposal, cache, source, include_identity) ==
    LET lag_name == DictGet(source, "lag")
        cached == CacheGet(cache, lag_name)
        lag_iface == IF cached # NoId THEN cached
                     ELSE InterfacesGet(nbv, device, lag_name)
        identity == IF include_identity THEN {"device", "name"} ELSE {}
        keys == identity \cup (DOMAIN source
                                \cap {"type", "enabled", "description", "lag"})
        payload == [k \in keys |->
                       CASE k = "device" -> device
                         [] k = "name" -> proposal.identifier
                         [] k = "lag" -> IF Truthy(lag_name) THEN lag_iface
                                         ELSE NoId
                         [] OTHER -> source[k]]
    IN [error |-> NoError, payload |-> payload, cache |-> cache]

\* to_payload(source, include_identity) of _apply_interface
to_payload(nbv, device, proposal, cache, source, include_identity) ==
    LET lag_name == DictGet(source, "lag")
        has_lag == "lag" \in DOMAIN source
        cached == CacheGet(cache, lag_name)
        lag_iface == IF cached # NoId THEN cached
                     ELSE InterfacesGet(nbv, device, lag_name)
        identity == IF include_identity THEN {"device", "name"} ELSE {}
        keys == identity \cup (DOMAIN source
                                \cap {"type", "enabled", "description", "lag"})
        payload == [k \in keys |->
                       CASE k = "device" -> device
                         [] k = "name" -> proposal.identifier
                         [] k = "lag" -> IF Truthy(lag_name) THEN lag_iface
                                         ELSE NoId
                         [] OTHER -> source[k]]
    IN IF has_lag /\ Truthy(lag_name) /\ lag_iface = NoId
       THEN [error |-> Raise("lag_reference", lag_name), payload |-> <<>>,
             cache |-> cache]
       ELSE [error |-> NoError, payload |-> payload,
             cache |-> IF has_lag /\ Truthy(lag_name)
                       THEN CachePut(cache, lag_name, lag_iface) ELSE cache]

_apply_interface(nbv, device, proposal, cache) ==
    LET existing == InterfacesGet(nbv, device, proposal.identifier)
        diff == IF proposal.diff = NoDict THEN <<>> ELSE proposal.diff
        created == to_payload(nbv, device, proposal, cache, proposal.desired, TRUE)
        updated == to_payload(nbv, device, proposal, cache, diff, FALSE)
    IN IF proposal.action = "create"
       THEN IF created.error # NoError
            THEN WithCache(Fail(nbv, created.error.type, created.error.what),
                           cache)
            ELSE WithCache(Ok(Create(nbv, "interfaces", InterfaceDefaults,
                                     created.payload)), created.cache)
       ELSE IF existing = NoId
       THEN IF proposal.action = "noop"
            THEN WithCache(Ok(Pass(nbv, NoId)), cache)
            ELSE WithCache(Fail(nbv, "interface_not_found", proposal.identifier),
                           cache)
       ELSE IF proposal.action = "update"
       THEN IF updated.error # NoError
            THEN WithCache(Fail(nbv, updated.error.type, updated.error.what),
                           cache)
            ELSE IF updated.payload # <<>>
            THEN WithCache(Ok(Update(nbv, "interfaces", existing,
                                     updated.payload)), updated.cache)
            ELSE WithCache(Ok(Pass(nbv, existing)), updated.cache)
       ELSE WithCache(Ok(Pass(nbv, existing)), cache)

\* for member in sorted(to_add): the first member not found raises
RECURSIVE AddMembers(_, _, _, _, _)
AddMembers(r, device, lag_id, lag_name, members) ==
    IF members = <<>> \/ r.error # NoError THEN r
    ELSE LET iface == InterfacesGet(r.nb, device, Head(members))
             u == Update(r.nb, "interfaces", iface, [lag |-> lag_id])
         IN IF iface = NoId
            THEN [nb |-> r.nb, record |-> NoId, calls |-> r.calls,
                  error |-> Raise("member_not_found", Head(members))]
            ELSE AddMembers([nb |-> u.nb, record |-> lag_id,
                             calls |-> r.calls \o u.calls, error |-> NoError],
                            device, lag_id, lag_name, Tail(members))

\* a variant that also disables the interface it removes from the LAG
RECURSIVE RemoveMembers_disabling(_, _, _)
RemoveMembers_disabling(r, device, members) ==
    IF members = <<>> \/ r.error # NoError THEN r
    ELSE LET iface == InterfacesGet(r.nb, device, Head(members))
             u == Update(r.nb, "interfaces", iface, [lag |-> NoId, enabled |-> FALSE])
         IN IF iface = NoId THEN RemoveMembers_disabling(r, device, Tail(members))
            ELSE RemoveMembers_disabling([nb |-> u.nb, record |-> r.record,
                                          calls |-> r.calls \o u.calls,
                                          error |-> NoError],
                                         device, Tail(members))

\* for member in sorted(to_remove): a member not found is skipped
RECURSIVE RemoveMembers(_, _, _)
RemoveMembers(r, device, members) ==
    IF members = <<>> \/ r.error # NoError THEN r
    ELSE LET iface == InterfacesGet(r.nb, device, Head(members))
             u == Update(r.nb, "interfaces", iface, [lag |-> NoId])
         IN IF iface = NoId THEN RemoveMembers(r, device, Tail(members))
            ELSE RemoveMembers([nb |-> u.nb, record |-> r.record,
                                calls |-> r.calls \o u.calls, error |-> NoError],
                               device, Tail(members))

\* the members _apply_lag_membership reads from the remote system
current_members(nbv, device, lag_id) ==
    {nbv.interfaces[i].name : i \in InterfacesFilterLag(nbv, device, lag_id)}

\* a variant that trusts the membership recorded in the plan
_apply_lag_membership_planned(nbv, device, proposal) ==
    LET lag_name == proposal.identifier
        lag_id == InterfacesGet(nbv, device, lag_name)
        current == IF proposal.current = NoDict THEN {}
                   ELSE Range(proposal.current.members)
        desired_set == Range(proposal.desired.members)
        to_add == desired_set \ current
        to_remove == current \ desired_set
        start == [nb |-> nbv, record |-> lag_id, calls |-> <<>>,
                  error |-> NoError]
        added == AddMembers(start, device, lag_id, lag_name, SortedNames(to_add))
        done == RemoveMembers(added, device, SortedNames(to_remove))
    IN IF proposal.action = "noop"
       THEN [result |-> Ok(Pass(nbv, NoId)), trace |-> <<>>]
       ELSE IF lag_id = NoId
       THEN [result |-> Fail(nbv, "lag_interface_not_found", lag_name),
             trace |-> <<>>]
       ELSE [result |-> done,
             trace |-> <<[lag |-> lag_name, to_add |-> to_add,
                          to_remove |-> to_remove]>>]

\* the body of the loop of _apply_lag_membership, for one LAG proposal
_apply_lag_membership(nbv, device, proposal) ==
    LET lag_name == proposal.identifier
        lag_id == InterfacesGet(nbv, device, lag_name)
        current == current_members(nbv, device, lag_id)
        desired_set == Range(proposal.desired.members)
        to_add == desired_set \ current
        to_remove == current \ desired_set
        start == [nb |-> nbv, record |-> lag_id, calls |-> <<>>,
                  error |-> NoError]
        added == AddMembers(start, device, lag_id, lag_name, SortedNames(to_add))
        done == RemoveMembers(added, device, SortedNames(to_remove))
        trace(a, r) == [lag |-> lag_name, to_add |-> a, to_remove |-> r]
    IN IF proposal.action = "noop"
       THEN [result |-> Ok(Pass(nbv, NoId)), trace |-> <<>>]
       ELSE IF lag_id = NoId
       THEN [result |-> Fail(nbv, "lag_interface_not_found", lag_name),
             trace |-> <<>>]
       ELSE [result |-> done, trace |-> <<trace(to_add, to_remove)>>]

-----------------------------------------------------------------------------
(* NetboxDeviceBuilder: plan and the passes of apply *)

EndsWith(str, suffix) ==
    Len(str) >= Len(suffix)
        /\ SubSeq(str, Len(str) - Len(suffix) + 1, Len(str)) = suffix

\* the mutant appends the suffixes whatever the name and the slug end with
_apply_suffixes_always(cfg, inv) ==
    [inv EXCEPT !.device.name = @ \o cfg.device_name_suffix,
                !.device.device_type_slug = @ \o cfg.device_type_suffix]

_apply_suffixes(cfg, inv) ==
    LET device == inv.device
        suffix == cfg.device_name_suffix
        device_name == IF suffix # "" /\ ~EndsWith(device.name, suffix)
                       THEN device.name \o suffix ELSE device.name
        type_suffix == cfg.device_type_suffix
        device_type_slug ==
            IF type_suffix # "" /\ ~EndsWith(device.device_type_slug, type_suffix)
            THEN device.device_type_slug \o type_suffix
            ELSE device.device_type_slug
    IN [inv EXCEPT !.device.name = device_name,
                   !.device.device_type_slug = device_type_slug]

\* a variant that writes the suffixed name and slug into the device it was given
caller_inventory_in_place(cfg, inv) == _apply_suffixes(cfg, inv)

\* the inventory the caller handed in, once plan has returned: replace()
\* builds the suffixed device and the resolved inventory as new records
caller_inventory(cfg, inv) == inv

plan(cfg, nbv, inv) == build(nbv, _apply_suffixes(cfg, inv))

\* _count_actions: the actions that occur, each with its count
_count_actions(proposals) ==
    LET count(a) == Cardinality({i \in DOMAIN proposals : proposals[i].action = a})
    IN [a \in {a \in {"create", "update", "noop"} : count(a) > 0} |-> count(a)]

\* the positions of the create proposals, in order
RECURSIVE Created(_, _)
Created(proposals, i) ==
    IF i > Len(proposals) THEN <<>>
    ELSE (IF proposals[i].action = "create" THEN <<proposals[i].identifier>>
          ELSE <<>>) \o Created(proposals, i + 1)

PreviewLength == 3

\* one line of the summary; "none" for a group without proposals
_summarize_group(label, proposals) ==
    LET created == Created(proposals, 1)
    IN IF proposals = <<>> THEN [label |-> label, none |-> TRUE]
       ELSE [label |-> label, none |-> FALSE,
             counts |-> _count_actions(proposals),
             create |-> SubSeq(created, 1,
                               IF Len(created) > PreviewLength
                               THEN PreviewLength ELSE Len(created)),
             more |-> Len(created) > PreviewLength]

_summarize(b) ==
    <<[label |-> "Device", action |-> b.device.action,
       identifier |-> b.device.identifier],
      _summarize_group("Module bays", b.module_bays),
      _summarize_group("Modules", b.modules),
      _summarize_group("Interfaces", b.interfaces),
      _summarize_group("LAGs", b.lags)>>

\* sorted(module_models): the model strings in code point order
RECURSIVE SortedModels(_)
SortedModels(S) ==
    IF S = {} THEN <<>>
    ELSE LET rank(m) == CHOOSE i \in DOMAIN ModelNames : ModelNames[i] = m
             least == CHOOSE x \in S : \A y \in S : rank(x) <= rank(y)
         IN <<least>> \o SortedModels(S \ {least})

Issue(kind, what) == [kind |-> kind, what |-> what]

\* a variant that writes an absent diff as an empty map
proposal_to_json_nodiff(proposal) ==
    [action |-> proposal.action, model |-> proposal.model,
     identifier |-> proposal.identifier, desired |-> proposal.desired,
     current |-> proposal.current,
     diff |-> IF proposal.diff = NoDict THEN <<>> ELSE proposal.diff]

proposal_to_json(proposal) ==
    [action |-> proposal.action, model |-> proposal.model,
     identifier |-> proposal.identifier, desired |-> proposal.desired,
     current |-> proposal.current, diff |-> proposal.diff]

to_json(b) ==
    [device |-> proposal_to_json(b.device),
     module_bays |-> [i \in DOMAIN b.module_bays |->
                         proposal_to_json(b.module_bays[i])],
     modules |-> [i \in DOMAIN b.modules |-> proposal_to_json(b.modules[i])],
     interfaces |-> [i \in DOMAIN b.interfaces |->
                        proposal_to_json(b.interfaces[i])],
     lags |-> [i \in DOMAIN b.lags |-> proposal_to_json(b.lags[i])]]

\* json.dump: the JSON value of a Python value, by the type the value has
\* under its key
JsonNull == [json |-> "null"]

JsonString(v) == IF v = None THEN JsonNull ELSE [json |-> "string", value |-> v]

JsonField(k, v) ==
    CASE k = "enabled" -> [json |-> "boolean", value |-> v]
      [] k \in {"members", "tags"} ->
            [json |-> "array", value |-> [i \in DOMAIN v |-> JsonString(v[i])]]
      [] k = "custom_fields" ->
            [json |-> "object", value |-> [f \in DOMAIN v |-> JsonString(v[f])]]
      [] OTHER -> JsonString(v)

JsonMap(m) ==
    IF m = NoDict THEN JsonNull
    ELSE [json |-> "object", value |-> [k \in DOMAIN m |-> JsonField(k, m[k])]]

JsonProposal(p) ==
    [action |-> JsonString(p.action), model |-> JsonString(p.model),
     identifier |-> JsonString(p.identifier), desired |-> JsonMap(p.desired),
     current |-> JsonMap(p.current), diff |-> JsonMap(p.diff)]

JsonDump(proposals) ==
    [device |-> JsonProposal(proposals.device),
     module_bays |-> [i \in DOMAIN proposals.module_bays |->
                         JsonProposal(proposals.module_bays[i])],
     modules |-> [i \in DOMAIN proposals.modules |->
                     JsonProposal(proposals.modules[i])],
     interfaces |-> [i \in DOMAIN proposals.interfaces |->
                        JsonProposal(proposals.interfaces[i])],
     lags |-> [i \in DOMAIN proposals.lags |-> JsonProposal(proposals.lags[i])]]

NoDocument == [absent |-> TRUE]

\* the proposal file; its name and its time stamp are left out
_write_proposals(b, device_name) ==
    [device |-> device_name, proposals |-> JsonDump(to_json(b))]

\* reading a proposal file back: the Python value of a JSON value
JsonValue(j) ==
    IF j.json = "null" THEN None
    ELSE IF j.json \in {"string", "boolean"} THEN j.value
    ELSE [k \in DOMAIN j.value |->
             IF j.value[k].json = "null" THEN None ELSE j.value[k].value]

JsonDict(j) ==
    IF j.json = "null" THEN NoDict
    ELSE [k \in DOMAIN j.value |-> JsonValue(j.value[k])]

ReadProposal(j) ==
    [action |-> JsonValue(j.action), model |-> JsonValue(j.model),
     identifier |-> JsonValue(j.identifier), desired |-> JsonDict(j.desired),
     current |-> JsonDict(j.current), diff |-> JsonDict(j.diff)]

ReadBatch(document) ==
    LET p == document.proposals
    IN [device |-> ReadProposal(p.device),
        module_bays |-> [i \in DOMAIN p.module_bays |->
                            ReadProposal(p.module_bays[i])],
        modules |-> [i \in DOMAIN p.modules |-> ReadProposal(p.modules[i])],
        interfaces |-> [i \in DOMAIN p.interfaces |->
                           ReadProposal(p.interfaces[i])],
        lags |-> [i \in DOMAIN p.lags |-> ReadProposal(p.lags[i])]]

\* a variant that lets the failed module-type lookup escape
_build_preflight_report_uncaught(nbv, inv) ==
    LET module_models == {inv.modules[i].module_type_model : i \in
                            {j \in DOMAIN inv.modules :
                                Truthy(inv.modules[j].module_type_model)}}
        failed == {m \in module_models : _find_module_type(nbv, m, None) = NoId}
    IN IF failed # {}
       THEN [error |-> Raise("module_type", SortedModels(failed)[1]),
             heading |-> "none", issues |-> <<>>]
       ELSE [error |-> NoError, heading |-> "present", issues |-> <<>>]

\* the report: the heading and the issue lines; the ValueError of a failed
\* module-type lookup is caught, so the report itself raises nothing
_build_preflight_report(nbv, inv) ==
    LET manufacturer_slug == inv.device.manufacturer_slug
        manufacturer_record ==
            IF Truthy(manufacturer_slug) /\ manufacturer_slug \in nbv.manufacturers
            THEN manufacturer_slug ELSE None
        manufacturer_issue ==
            IF Truthy(manufacturer_slug)
            THEN IF manufacturer_record = None
                 THEN <<Issue("manufacturer_not_found", <<manufacturer_slug>>)>>
                 ELSE <<>>
            ELSE <<Issue("manufacturer_missing", <<>>)>>
        device_type_slug == inv.device.device_type_slug
        device_type_issue ==
            IF device_type_slug \notin {t.slug : t \in nbv.device_types}
            THEN <<Issue("device_type_not_found", <<device_type_slug>>)>>
            ELSE <<>>
        module_models == {inv.modules[i].module_type_model : i \in
                            {j \in DOMAIN inv.modules :
                                Truthy(inv.modules[j].module_type_model)}}
        missing_modules ==
            SortedModels({m \in module_models :
                _find_module_type(nbv, m, manufacturer_record) = NoId})
        module_issue == IF missing_modules # <<>>
                        THEN <<Issue("module_types_not_found", missing_modules)>>
                        ELSE <<>>
        issues == manufacturer_issue \o device_type_issue \o module_issue
    IN [error |-> NoError,
        heading |-> IF issues = <<>> THEN "present" ELSE "issues",
        issues |-> issues]

\* the requests of _build_preflight_report: one lookup per module model
_build_preflight_report_requests(inv) ==
    LET module_models == {inv.modules[i].module_type_model : i \in
                            {j \in DOMAIN inv.modules :
                                Truthy(inv.modules[j].module_type_model)}}
    IN (IF Truthy(inv.device.manufacturer_slug)
        THEN <<Request("get", "manufacturers")>> ELSE <<>>)
       \o <<Request("get", "device_types")>>
       \o [i \in DOMAIN SortedModels(module_models) |->
              Request("filter", "module_types")]

\* the requests of dry_run: those of plan, then those of the report
dry_run_requests(cfg, nbv, inv) ==
    build_requests(nbv, _apply_suffixes(cfg, inv))
        \o _build_preflight_report_requests(_apply_suffixes(cfg, inv))

\* dry_run: the batch, the proposal file (None when save_json is off) and the
\* summary with the preflight block
dry_run(cfg, nbv, inv, save_json) ==
    LET resolved_inventory == _apply_suffixes(cfg, inv)
        b == build(nbv, resolved_inventory)
        preflight == _build_preflight_report(nbv, resolved_inventory)
    IN [error |-> preflight.error,
        batch |-> b,
        output_path |-> IF save_json THEN resolved_inventory.device.name ELSE None,
        document |-> IF save_json
                     THEN _write_proposals(b, resolved_inventory.device.name)
                     ELSE NoDocument,
        summary |-> [lines |-> _summarize(b), preflight |-> preflight],
        requests |-> dry_run_requests(cfg, nbv, inv)]

NoDryRun == [absent |-> TRUE]

\* harvest has not been called
NoHarvest == [absent |-> TRUE]

NoBatch == [device |-> NoDict, module_bays |-> <<>>, modules |-> <<>>,
            interfaces |-> <<>>, lags |-> <<>>]

\* the passes of apply, in the order the method runs them
\* a variant that installs modules before the bays
PassOrder_modules_first == <<"modules", "module_bays", "interfaces", "lags">>

\* the loops of apply after the device write, in program order
PassOrder == <<"module_bays", "modules", "interfaces", "lags">>

PassIndex(p) == CHOOSE i \in 1..Len(PassOrder) : PassOrder[i] = p

\* the first pass from position i on that has a proposal, else verification
RECURSIVE PassFrom(_, _)
PassFrom(b, i) ==
    IF i > Len(PassOrder) THEN "verify"
    ELSE IF b[PassOrder[i]] # <<>> THEN PassOrder[i]
    ELSE PassFrom(b, i + 1)

\* where apply stands after proposal i of pass p
NextPc(b, p, i) == IF i < Len(b[p]) THEN p ELSE PassFrom(b, PassIndex(p) + 1)
NextIdx(b, p, i) == IF i < Len(b[p]) THEN i + 1 ELSE 1

\* a variant that undoes the writes of the call when a step fails
Raised_rollback(e) ==
    /\ pc' = "failed"
    /\ error' = e
    /\ nb' = nb0
    /\ UNCHANGED <<calls, device_record, module_bay_cache, interface_cache,
                   idx, lag_trace>>

\* an exception leaves apply: nothing is written, nothing is undone
Raised(e) ==
    /\ pc' = "failed"
    /\ error' = e
    /\ UNCHANGED <<nb, calls, device_record, module_bay_cache, interface_cache,
                   idx, lag_trace>>

\* dry_run(inventory, save_json); the remote system is only read
DryRun ==
    /\ pc = "idle"
    /\ \E save_json \in BOOLEAN :
          dry' = dry_run(config, nb, inventory, save_json)
    /\ inventory' = caller_inventory(config, inventory)
    /\ UNCHANGED <<nb, pc, batch, post_batch, dependencies,
                   device_record, module_bay_cache, interface_cache, idx, calls,
                   error, nb0, history, lag_trace, config, classified,
                   collected, entry>>

\* apply: batch, resolved_inventory = self.plan(inventory)
Plan ==
    /\ pc = "idle"
    /\ Len(history) < MaxRuns
    /\ batch' = plan(config, nb, inventory)
    /\ pc' = "resolve"
    /\ nb0' = nb
    /\ calls' = <<>>
    /\ error' = NoError
    /\ post_batch' = NoBatch
    /\ dependencies' = NoDependencies
    /\ device_record' = NoId
    /\ module_bay_cache' = <<>>
    /\ interface_cache' = <<>>
    /\ idx' = 1
    /\ lag_trace' = <<>>
    /\ dry' = NoDryRun
    /\ inventory' = caller_inventory(config, inventory)
    /\ UNCHANGED <<nb, history, config, classified, collected, entry>>

ResolveDependencies ==
    /\ pc = "resolve"
    /\ LET r == _resolve_device_dependencies(
                    nb, _apply_suffixes(config, inventory).device)
       IN /\ dependencies' = r.dependencies
          /\ error' = r.error
          /\ pc' = IF r.error = NoError THEN "device" ELSE "failed"
    /\ UNCHANGED <<inventory, nb, batch, post_batch, device_record,
                   module_bay_cache, interface_cache, idx, calls, nb0, history,
                   lag_trace, config, dry, classified, collected, entry>>

ApplyDevice ==
    /\ pc = "device"
    /\ LET r == _apply_device(nb, batch.device, dependencies)
       IN IF r.error # NoError THEN Raised(r.error)
          ELSE /\ nb' = r.nb
               /\ calls' = calls \o Issued(pc, r.calls)
               /\ device_record' = r.record
               /\ pc' = PassFrom(batch, 1)
               /\ UNCHANGED <<error, module_bay_cache, interface_cache, idx,
                              lag_trace>>
    /\ UNCHANGED <<inventory, batch, post_batch, dependencies, nb0, history,
                   config, dry, classified,
                   collected, entry>>

ApplyModuleBay ==
    /\ pc = "module_bays"
    /\ LET proposal == batch.module_bays[idx]
           r == _apply_module_bay(nb, device_record, proposal)
       IN IF r.error # NoError THEN Raised(r.error)
          ELSE /\ nb' = r.nb
               /\ calls' = calls \o Issued(pc, r.calls)
               /\ module_bay_cache' =
                    IF r.record # NoId
                    THEN CachePut(module_bay_cache, proposal.identifier, r.record)
                    ELSE module_bay_cache
               /\ pc' = NextPc(batch, "module_bays", idx)
               /\ idx' = NextIdx(batch, "module_bays", idx)
               /\ UNCHANGED <<error, device_record, interface_cache, lag_trace>>
    /\ UNCHANGED <<inventory, batch, post_batch, dependencies, nb0, history,
                   config, dry, classified,
                   collected, entry>>

ApplyModule ==
    /\ pc = "modules"
    /\ LET proposal == batch.modules[idx]
           r == _apply_module(nb, device_record, proposal, dependencies,
                              module_bay_cache)
       IN IF r.error # NoError THEN Raised(r.error)
          ELSE /\ nb' = r.nb
               /\ calls' = calls \o Issued(pc, r.calls)
               /\ module_bay_cache' = r.cache
               /\ pc' = NextPc(batch, "modules", idx)
               /\ idx' = NextIdx(batch, "modules", idx)
               /\ UNCHANGED <<error, device_record, interface_cache, lag_trace>>
    /\ UNCHANGED <<inventory, batch, post_batch, dependencies, nb0, history,
                   config, dry, classified,
                   collected, entry>>

ApplyInterface ==
    /\ pc = "interfaces"
    /\ LET proposal == batch.interfaces[idx]
           r == _apply_interface(nb, device_record, proposal, interface_cache)
       IN IF r.error # NoError THEN Raised(r.error)
          ELSE /\ nb' = r.nb
               /\ calls' = calls \o Issued(pc, r.calls)
               /\ interface_cache' =
                    IF r.record # NoId
                    THEN CachePut(r.cache, proposal.identifier, r.record)
                    ELSE r.cache
               /\ pc' = NextPc(batch, "interfaces", idx)
               /\ idx' = NextIdx(batch, "interfaces", idx)
               /\ UNCHANGED <<error, device_record, module_bay_cache, lag_trace>>
    /\ UNCHANGED <<inventory, batch, post_batch, dependencies, nb0, history,
                   config, dry, classified,
                   collected, entry>>

\* one turn of the loop of _apply_lag_membership; a failure keeps the
\* membership updates made before it
ApplyLagMembership ==
    /\ pc = "lags"
    /\ LET proposal == batch.lags[idx]
           m == _apply_lag_membership(nb, device_record, proposal)
           r == m.result
       IN /\ nb' = r.nb
          /\ calls' = calls \o Issued(pc, r.calls)
          /\ lag_trace' = lag_trace \o m.trace
          /\ error' = r.error
          /\ IF r.error # NoError
             THEN pc' = "failed" /\ idx' = idx
             ELSE /\ pc' = NextPc(batch, "lags", idx)
                  /\ idx' = NextIdx(batch, "lags", idx)
    /\ UNCHANGED <<inventory, batch, post_batch, dependencies, device_record,
                   module_bay_cache, interface_cache, nb0, history, config, dry, classified,
                   collected, entry>>

\* post_batch = self.proposal_engine.build(resolved_inventory)
Verify ==
    /\ pc = "verify"
    /\ post_batch' = build(nb, _apply_suffixes(config, inventory))
    /\ pc' = "done"
    /\ UNCHANGED <<inventory, nb, batch, dependencies, device_record,
                   module_bay_cache, interface_cache, idx, calls, error, nb0,
                   history, lag_trace, config, dry, classified,
                   collected, entry>>

\* apply has returned or raised; the caches of the call are discarded
Return ==
    /\ pc \in {"done", "failed"}
    /\ Len(history) + 1 < MaxRuns
    /\ history' = Append(history, [result |-> pc, error |-> error,
                                   wrote |-> calls # <<>>,
                                   repaired |-> FALSE])
    /\ pc' = "idle"
    /\ UNCHANGED <<inventory, nb, batch, post_batch, dependencies,
                   device_record, module_bay_cache, interface_cache, idx, calls,
                   error, nb0, lag_trace, config, dry, classified,
                   collected, entry>>

-----------------------------------------------------------------------------
(* The operator between two apply calls (spec, error handling design): the   *)
(* remote object the failed call named as missing is provided.               *)

NewInterface(device_id, name, type) ==
    [device |-> device_id, name |-> name, type |-> type, enabled |-> TRUE,
     description |-> None, lag |-> NoId]

Provide(nbv, e, inv) ==
    LET manufacturer == IF Truthy(inv.device.manufacturer_slug)
                        THEN inv.device.manufacturer_slug ELSE "nokia"
        device_id == DevicesGet(nbv, inv.device.name)
    IN CASE e.type = "site" -> [nbv EXCEPT !.sites = @ \cup {e.what}]
         [] e.type = "role" -> [nbv EXCEPT !.device_roles = @ \cup {e.what}]
         [] e.type = "device_type" ->
                [nbv EXCEPT !.device_types = @ \cup
                    {[slug |-> e.what, manufacturer |-> manufacturer]}]
         [] e.type = "manufacturer" ->
                [nbv EXCEPT !.manufacturers = @ \cup {e.what}]
         [] e.type = "manufacturer_mismatch" ->
                [nbv EXCEPT !.device_types =
                    {IF t.slug = inv.device.device_type_slug
                     THEN [t EXCEPT !.manufacturer = manufacturer] ELSE t : t \in @}]
         [] e.type = "module_type" ->
                [nbv EXCEPT !.module_types =
                    Append(@, [model |-> e.what, manufacturer |-> manufacturer])]
         [] e.type = "module_bay_not_found" ->
                [nbv EXCEPT !.module_bays =
                    Append(@, [device |-> device_id, name |-> e.what,
                               label |-> e.what, position |-> None])]
         [] e.type \in {"lag_reference", "lag_interface_not_found"} ->
                [nbv EXCEPT !.interfaces =
                    Append(@, NewInterface(device_id, e.what, "lag"))]
         [] e.type \in {"member_not_found", "interface_not_found"} ->
                [nbv EXCEPT !.interfaces =
                    Append(@, NewInterface(device_id, e.what, "other"))]
         [] OTHER -> nbv

Repair ==
    /\ pc = "idle"
    /\ history # <<>>
    /\ history[Len(history)].result = "failed"
    /\ ~history[Len(history)].repaired
    /\ nb' = Provide(nb, history[Len(history)].error,
                     _apply_suffixes(config, inventory))
    /\ history' = [history EXCEPT ![Len(history)].repaired = TRUE]
    /\ UNCHANGED <<inventory, pc, batch, post_batch, dependencies,
                   device_record, module_bay_cache, interface_cache, idx, calls,
                   error, nb0, lag_trace, config, dry, classified,
                   collected, entry>>

-----------------------------------------------------------------------------
(* Inventories and remote states the runs start from *)

DefaultConfig == [device_name_suffix |-> "", device_type_suffix |-> ""]

Device(manufacturer, serial) ==
    [name |-> "SIM-SROS-01", site_slug |-> "sim", role_slug |-> "access-switch",
     manufacturer_slug |-> manufacturer, device_type_slug |-> "nokia-7750-sr",
     status |-> "active", serial |-> serial, asset_tag |-> None,
     custom_fields |-> <<>>, tags |-> <<>>]

Bay(i) == [name |-> BayNames[i], label |-> BayNames[i],
           position |-> BayPositions[i]]

Module(i, m) == [bay_name |-> BayNames[i], module_type_model |-> ModelNames[m],
                 status |-> "active", serial |-> None]

Iface(name, type, description, lag) ==
    [name |-> name, type_slug |-> type, enabled |-> TRUE,
     description |-> description, lag |-> lag]

Lag(name, members) == [name |-> name, members |-> members]

\* the elements of a set of numbers as an ascending sequence
RECURSIVE Ascending(_)
Ascending(S) ==
    IF S = {} THEN <<>>
    ELSE LET m == CHOOSE x \in S : \A y \in S : x <= y
         IN <<m>> \o Ascending(S \ {m})

Map(s, F(_)) == [i \in 1..Len(s) |-> F(s[i])]

Inventory(device, module_bays, modules, interfaces, lags) ==
    [device |-> device, module_bays |-> module_bays, modules |-> modules,
     interfaces |-> interfaces, lags |-> lags]

RemoteDevice(status, site, device_type, serial) ==
    [name |-> "SIM-SROS-01", status |-> status, site |-> site,
     role |-> "access-switch", device_type |-> device_type, serial |-> serial,
     asset_tag |-> None, tags |-> <<>>, custom_fields |-> <<>>]

MatchingDevice == RemoteDevice("active", "sim", "nokia-7750-sr", None)

NokiaType == [slug |-> "nokia-7750-sr", manufacturer |-> "nokia"]

Remote(sites, roles, manufacturers, device_types, module_types, devices, module_bays, modules, interfaces) ==
    [sites |-> sites, device_roles |-> roles, manufacturers |-> manufacturers,
     device_types |-> device_types, module_types |-> module_types,
     devices |-> devices, module_bays |-> module_bays, modules |-> modules,
     interfaces |-> interfaces]

\* a remote system that holds every object the device depends on
Populated(module_types, devices, module_bays, modules, interfaces) ==
    Remote({"sim"}, {"access-switch"}, {"nokia"}, {NokiaType}, module_types,
           devices, module_bays, modules, interfaces)

ModuleType(m, manufacturer) ==
    [model |-> ModelNames[m], manufacturer |-> manufacturer]

ModuleTypeTables ==
    { <<>>,
      <<ModuleType(1, "nokia")>>,
      <<ModuleType(1, "nokia"), ModuleType(2, "nokia")>>,
      <<ModuleType(1, "cisco"), ModuleType(1, "nokia"), ModuleType(1, "nokia"),
        ModuleType(2, "nokia")>>,
      <<ModuleType(1, "cisco")>> }

Start(inv, nbv) == [inventory |-> inv, nb |-> nbv]

\* every reference of a remote device names an object that exists
References(nbv) ==
    \A i \in DOMAIN nbv.devices :
        /\ nbv.devices[i].site \in nbv.sites
        /\ nbv.devices[i].role \in nbv.device_roles
        /\ nbv.devices[i].device_type \in {t.slug : t \in nbv.device_types}

GenericType == [slug |-> "generic", manufacturer |-> "cisco"]

\* the device and the objects it depends on; no child objects
DeviceStarts ==
    LET devices == { <<>>, <<MatchingDevice>>,
                     <<RemoteDevice("active", "sim", "nokia-7750-sr", "SN1")>>,
                     <<RemoteDevice("planned", "sim", "nokia-7750-sr", None)>>,
                     <<RemoteDevice("active", "sim", "generic", None)>>,
                     <<RemoteDevice("active", "lab", "nokia-7750-sr", None)>> }
        types == { {}, {NokiaType}, {NokiaType, GenericType},
                   {[slug |-> "nokia-7750-sr", manufacturer |-> "cisco"]} }
        remotes == { Remote(t[1], t[2], t[3], t[4], <<>>, t[5], <<>>, <<>>, <<>>) :
                        t \in {{}, {"sim"}, {"sim", "lab"}}
                              \X {{}, {"access-switch"}}
                              \X {{}, {"nokia"}} \X types \X devices }
    IN { Start(Inventory(Device(t[1], t[2]), <<>>, <<>>, <<>>, <<>>), t[3]) :
            t \in {"nokia", ""} \X {None, "SN1"}
                  \X {r \in remotes : References(r)} }

BayStates == {"absent", "empty", "m1", "m2", "relabel"}

\* remote bays and modules of device 1, one state per bay
RemoteBays(g) ==
    LET present == Ascending({i \in DOMAIN g : g[i] # "absent"})
        bay(i) == [device |-> 1, name |-> BayNames[i],
                   label |-> IF g[i] = "relabel" THEN "old" ELSE BayNames[i],
                   position |-> BayPositions[i]]
    IN Map(present, bay)

RemoteModules(g, table) ==
    LET present == Ascending({i \in DOMAIN g : g[i] # "absent"})
        holding == Ascending({k \in DOMAIN present : g[present[k]] # "empty"})
        typeOf(k) == LET model == IF g[present[k]] = "m2" THEN ModelNames[2]
                                  ELSE ModelNames[1]
                     IN FirstId({j \in DOMAIN table : table[j].model = model})
        module(k) == [device |-> 1, module_bay |-> k, module_type |-> typeOf(k),
                      status |-> IF g[present[k]] = "relabel" THEN "planned"
                                 ELSE "active",
                      serial |-> None]
    IN Map(holding, module)

\* module bays and modules
ModuleStarts ==
    LET bays == 1..MaxBays
        inventories ==
            UNION { { Inventory(Device("nokia", None), Map(Ascending(1..n), Bay),
                          LET mod(i) == Module(i, f[i])
                          IN Map(Ascending(DOMAIN f), mod), <<>>, <<>>) :
                        f \in UNION {[B -> 1..2] : B \in SUBSET bays} } :
                    n \in 0..MaxBays }
        remote(g, table) ==
            Populated(table, <<MatchingDevice>>, RemoteBays(g),
                      RemoteModules(g, table), <<>>)
        remotes ==
            { Populated(table, <<>>, <<>>, <<>>, <<>>) : table \in ModuleTypeTables }
            \cup
            { r \in { remote(t[1], t[2]) :
                        t \in [bays -> BayStates] \X ModuleTypeTables } :
                \A i \in DOMAIN r.modules : r.modules[i].module_type # NoId }
    IN { Start(t[1], t[2]) : t \in inventories \X remotes }

PortStates == {"absent", "nolag", "lag"}

\* physical ports and one LAG
LagStarts ==
    LET ports == 1..MaxPorts
        layouts == { t \in [ports -> PortStates] \X BOOLEAN :
                        (\E i \in ports : t[1][i] = "lag") => t[2] }
        port(h, mirrored) ==
            LET mk(i) == Iface(PortNames[i], "other", None,
                               IF h[i] = "lag" /\ mirrored THEN LagNames[1]
                               ELSE None)
            IN Map(Ascending({i \in ports : h[i] # "absent"}), mk)
        lagmembers(h) == LET nm(i) == PortNames[i]
                         IN Map(Ascending({i \in ports : h[i] = "lag"}), nm)
        inv(t, mirrored) ==
            Inventory(Device("nokia", None), <<>>, <<>>,
                      port(t[1], mirrored)
                        \o (IF t[2] THEN <<Iface(LagNames[1], "lag", None, None)>>
                            ELSE <<>>),
                      IF t[2] THEN <<Lag(LagNames[1], lagmembers(t[1]))>>
                      ELSE <<>>)
        \* the inventory names every port; with mirrored false the LAG lists
        \* its members and the ports carry no lag field
        harvested == { t \in layouts : \A i \in ports : t[1][i] # "absent" }
        rport(t) == LET mk(i) == [device |-> 1, name |-> PortNames[i],
                                  type |-> "other", enabled |-> TRUE,
                                  description |-> None,
                                  lag |-> IF t[1][i] = "lag" THEN 1 ELSE NoId]
                    IN Map(Ascending({i \in ports : t[1][i] # "absent"}), mk)
        remote(t) ==
            Populated(<<>>, <<MatchingDevice>>, <<>>, <<>>,
                      (IF t[2] THEN <<NewInterface(1, LagNames[1], "lag")>>
                       ELSE <<>>) \o rport(t))
    IN { Start(inv(t[1], t[2]), remote(t[3])) :
            t \in harvested \X BOOLEAN \X layouts }
       \cup { Start(inv(t, TRUE), Populated(<<>>, <<>>, <<>>, <<>>, <<>>)) :
                 t \in harvested }

\* two ports moving between two LAGs; the classifier's LAG type varies
TwoLagStarts ==
    LET assign == [1..2 -> 0..2]
        used(a) == {a[i] : i \in 1..2} \ {0}
        inv(a, type) ==
            LET mkl(j) == Iface(LagNames[j], type, None, None)
                mkp(i) == Iface(PortNames[i], "other", None,
                                IF a[i] = 0 THEN None ELSE LagNames[a[i]])
                mkg(j) == LET nm(i) == PortNames[i]
                          IN Lag(LagNames[j],
                                 Map(Ascending({i \in 1..2 : a[i] = j}), nm))
            IN Inventory(Device("nokia", None), <<>>, <<>>,
                         Map(Ascending(used(a)), mkl) \o Map(<<1, 2>>, mkp),
                         Map(Ascending(used(a)), mkg))
        remote(b, desc) ==
            LET mkp(i) == [device |-> 1, name |-> PortNames[i], type |-> "other",
                           enabled |-> TRUE,
                           description |-> IF i = 1 THEN desc ELSE None,
                           lag |-> IF b[i] = 0 THEN NoId ELSE b[i]]
            IN Populated(<<>>, <<MatchingDevice>>, <<>>, <<>>,
                         <<NewInterface(1, LagNames[1], "lag"),
                           NewInterface(1, LagNames[2], "lag")>>
                         \o Map(<<1, 2>>, mkp))
    IN { Start(inv(t[1], t[2]), remote(t[3], t[4])) :
            t \in assign \X {"lag", "virtual"} \X assign \X {None, "old"} }

\* _build_sample_inventory, with the LAG type the classifier is configured for
SampleInventory(lag_type) ==
    Inventory(Device("nokia", None), <<Bay(1), Bay(2)>>,
              <<Module(1, 1), Module(2, 2)>>,
              <<Iface(LagNames[1], lag_type, "Simulated uplink", None),
                Iface(PortNames[1], "other", "Simulated member", LagNames[1]),
                Iface(PortNames[2], "other", "Access port", None)>>,
              <<Lag(LagNames[1], <<PortNames[1]>>)>>)

\* the same inventory with the wiring of members left to the LAG records
Unwired(inv) ==
    [inv EXCEPT !.interfaces =
        [i \in DOMAIN inv.interfaces |-> [inv.interfaces[i] EXCEPT !.lag = None]]]

\* the same inventory with a second LAG that has no member yet
WithIdleLag(inv) ==
    [inv EXCEPT !.interfaces = Append(@, Iface(LagNames[2], "lag", None, None)),
                !.lags = Append(@, Lag(LagNames[2], <<>>))]

SampleStarts ==
    { Start(t[1], Populated(t[2], t[3], <<>>, <<>>, <<>>)) :
        t \in {SampleInventory("lag"), SampleInventory("virtual"),
               Unwired(SampleInventory("lag")),
               WithIdleLag(SampleInventory("lag"))}
              \X ModuleTypeTables \X {<<>>, <<MatchingDevice>>} }

\* a LAG record that lists a port no interface stands for, with or without
\* the LAG's own interface
DanglingLagStarts ==
    { Start(Inventory(Device("nokia", None), <<>>, <<>>,
                      <<Iface(PortNames[1], "other", None, None)>>
                        \o (IF t[1] THEN <<Iface(LagNames[1], "lag", None, None)>>
                            ELSE <<>>),
                      <<Lag(LagNames[1], <<PortNames[1], PortNames[4]>>)>>),
            Populated(<<>>, t[2], <<>>, <<>>, <<>>)) :
        t \in BOOLEAN \X {<<>>, <<MatchingDevice>>} }

\* two bays that hold modules of one model
TwinModules ==
    Inventory(Device("nokia", None), <<Bay(1), Bay(2)>>,
              <<Module(1, 1), Module(2, 1)>>, <<>>, <<>>)

\* the sample and the twin inventory against a remote system without the
\* device, with or without the manufacturer and the device type; with none
\* of them and no module type it answers as the simulation API does
PreflightStarts ==
    { Start(t[1], Remote({"sim"}, {"access-switch"}, t[2], t[3], t[4],
                         <<>>, <<>>, <<>>, <<>>)) :
        t \in {SampleInventory("lag"), TwinModules}
              \X {{}, {"nokia"}} \X {{}, {NokiaType}} \X ModuleTypeTables }

\* a device type that exposes no manufacturer
BareType == [slug |-> "nokia-7750-sr", manufacturer |-> None]

BareTypeStarts ==
    { Start(Inventory(Device("nokia", None), <<>>, <<>>, <<>>, <<>>),
            Remote({"sim"}, {"access-switch"}, {"nokia"}, {BareType}, <<>>, d,
                   <<>>, <<>>, <<>>)) :
        d \in {<<>>, <<RemoteDevice("planned", "sim", "nokia-7750-sr", None)>>} }

\* the remote device holds a bay with a module and two ports the inventory
\* does not name, one of them recorded as a member of the inventory's LAG
StaleMemberStarts ==
    LET port(i, lag, description) ==
            [device |-> 1, name |-> PortNames[i], type |-> "other",
             enabled |-> TRUE, description |-> description, lag |-> lag]
    IN { Start(Inventory(Device("nokia", None), <<>>, <<>>,
                         <<Iface(LagNames[1], "lag", None, None),
                           Iface(PortNames[1], "other", None, LagNames[1])>>,
                         <<Lag(LagNames[1], <<PortNames[1]>>)>>),
               Populated(<<ModuleType(1, "nokia")>>, <<MatchingDevice>>,
                         <<[device |-> 1, name |-> BayNames[1],
                            label |-> BayNames[1], position |-> BayPositions[1]]>>,
                         <<[device |-> 1, module_bay |-> 1, module_type |-> 1,
                            status |-> "active", serial |-> None]>>,
                         <<NewInterface(1, LagNames[1], "lag"), port(1, l, None),
                           port(2, 1, "uplink"), port(3, NoId, "spare")>>)) :
           l \in {NoId, 1} }

\* the inventory harvested from a card whose provisioned type and whose
\* type in the card list differ: one bay, a module of either model
TwoModelStarts ==
    { Start(Inventory(Device("nokia", None), <<Bay(1)>>,
                      <<Module(1, 1), Module(1, 2)>>, <<>>, <<>>),
            Populated(<<ModuleType(1, "nokia"), ModuleType(2, "nokia")>>, d,
                      <<>>, <<>>, <<>>)) :
        d \in {<<>>, <<MatchingDevice>>} }

Starts == DeviceStarts \cup ModuleStarts \cup LagStarts \cup TwoLagStarts
            \cup SampleStarts \cup DanglingLagStarts \cup PreflightStarts
            \cup BareTypeStarts \cup StaleMemberStarts \cup TwoModelStarts

-----------------------------------------------------------------------------
(* RulesEngine: the classifier. A text is a sequence of characters; a        *)
(* pattern is either a literal searched for anywhere in the candidate, or a  *)
(* leading run of lower-case letters, possibly empty, followed by a hyphen,  *)
(* the run being the one group of the pattern, positional or named "site".   *)

LowerChars == <<"a", "b", "c", "d", "e", "f", "g", "h", "i", "j", "k", "l", "m",
                "n", "o", "p", "q", "r", "s", "t", "u", "v", "w", "x", "y", "z">>
UpperChars == <<"A", "B", "C", "D", "E", "F", "G", "H", "I", "J", "K", "L", "M",
                "N", "O", "P", "Q", "R", "S", "T", "U", "V", "W", "X", "Y", "Z">>
DigitChars == <<"0", "1", "2", "3", "4", "5", "6", "7", "8", "9">>
SpaceChars == {" "}

\* None, where a text is expected: a sequence that is no text, its one
\* element being no character
NoText == <<"None">>

\* None, where a template is expected
NoTemplate == [text |-> <<>>, field |-> "absent"]

\* Python truthiness of an optional text
TextTruthy(v) == v # NoText /\ v # <<>>

LowerChar(c) ==
    IF \E i \in DOMAIN UpperChars : UpperChars[i] = c
    THEN LowerChars[CHOOSE i \in DOMAIN UpperChars : UpperChars[i] = c] ELSE c

UpperChar(c) ==
    IF \E i \in DOMAIN LowerChars : LowerChars[i] = c
    THEN UpperChars[CHOOSE i \in DOMAIN LowerChars : LowerChars[i] = c] ELSE c

\* str.lower(), str.upper()
Lower(text) == [i \in DOMAIN text |-> LowerChar(text[i])]
Upper(text) == [i \in DOMAIN text |-> UpperChar(text[i])]

\* the literal occurs somewhere in the text
Contains(text, literal) ==
    \E i \in 1..(Len(text) - Len(literal) + 1) :
        SubSeq(text, i, i + Len(literal) - 1) = literal

\* length of the longest run of lower-case letters the text starts with
RECURSIVE LeadingLower(_)
LeadingLower(text) ==
    IF text # <<>> /\ Head(text) \in Range(LowerChars)
    THEN 1 + LeadingLower(Tail(text)) ELSE 0

\* pattern.search(candidate): whether it matches, and the groups
Search(pattern, candidate) ==
    IF pattern.kind = "literal"
    THEN [matched |-> Contains(candidate, pattern.text), group |-> NoText]
    ELSE LET n == LeadingLower(candidate)
         IN IF n < Len(candidate) /\ candidate[n + 1] = "-"
            THEN [matched |-> TRUE, group |-> SubSeq(candidate, 1, n)]
            ELSE [matched |-> FALSE, group |-> NoText]

\* template.format(...): with named groups the keywords, else the positions
Format(template, pattern, group) ==
    CASE template.field = "none" -> [error |-> NoError, text |-> template.text]
      [] template.field = "site" ->
            IF pattern.kind = "named"
            THEN [error |-> NoError, text |-> template.text \o group]
            ELSE [error |-> Raise("KeyError", "site"), text |-> NoText]
      [] template.field = "0" ->
            IF pattern.kind = "positional"
            THEN [error |-> NoError, text |-> template.text \o group]
            ELSE [error |-> Raise("IndexError", "0"), text |-> NoText]

RegexRule(pattern, value, template, transform) ==
    [pattern |-> pattern, value |-> value, template |-> template,
     transform |-> transform]

\* RegexRule.apply: None when the pattern does not match or derives nothing
RegexRule_apply(rule, candidate) ==
    LET match == Search(rule.pattern, candidate)
        formatted == Format(rule.template, rule.pattern, match.group)
        result == IF rule.value # NoText THEN rule.value
                  ELSE IF rule.template # NoTemplate THEN formatted.text
                  ELSE NoText
    IN IF ~match.matched THEN [error |-> NoError, value |-> NoText]
       ELSE IF rule.value = NoText /\ rule.template # NoTemplate
               /\ formatted.error # NoError
       THEN [error |-> formatted.error, value |-> NoText]
       ELSE IF result = NoText THEN [error |-> NoError, value |-> NoText]
       ELSE [error |-> NoError,
             value |-> CASE rule.transform = "lower" -> Lower(result)
                         [] rule.transform = "upper" -> Upper(result)
                         [] OTHER -> result]

\* a variant in which the last rule that derives a value wins
RECURSIVE _apply_rules_last(_, _, _, _)
_apply_rules_last(engine, host_name, rules, default_key) ==
    IF rules = <<>>
    THEN LET default_value == engine.defaults[default_key]
         IN IF TextTruthy(default_value)
            THEN [error |-> NoError, value |-> default_value]
            ELSE [error |-> Raise("ValueError", default_key), value |-> NoText]
    ELSE LET r == RegexRule_apply(rules[Len(rules)], host_name)
         IN IF r.error # NoError THEN r
            ELSE IF TextTruthy(r.value) THEN r
            ELSE _apply_rules_last(engine, host_name,
                                   SubSeq(rules, 1, Len(rules) - 1), default_key)

\* a variant that answers an empty text when nothing is configured
RECURSIVE _apply_rules_lenient(_, _, _, _)
_apply_rules_lenient(engine, host_name, rules, default_key) ==
    IF rules = <<>>
    THEN LET default_value == engine.defaults[default_key]
         IN [error |-> NoError,
             value |-> IF default_value = NoText THEN <<>> ELSE default_value]
    ELSE LET r == RegexRule_apply(Head(rules), host_name)
         IN IF r.error # NoError THEN r
            ELSE IF TextTruthy(r.value) THEN r
            ELSE _apply_rules_lenient(engine, host_name, Tail(rules), default_key)

\* for rule in rules: the first truthy value; else the default; else raise
RECURSIVE _apply_rules(_, _, _, _)
_apply_rules(engine, host_name, rules, default_key) ==
    IF rules = <<>>
    THEN LET default_value == engine.defaults[default_key]
         IN IF TextTruthy(default_value)
            THEN [error |-> NoError, value |-> default_value]
            ELSE [error |-> Raise("ValueError", default_key), value |-> NoText]
    ELSE LET r == RegexRule_apply(Head(rules), host_name)
         IN IF r.error # NoError THEN r
            ELSE IF TextTruthy(r.value) THEN r
            ELSE _apply_rules(engine, host_name, Tail(rules), default_key)

role_slug(engine, host_name) ==
    _apply_rules(engine, host_name, engine.role_rules, "role_slug")

site_slug(engine, host_name) ==
    _apply_rules(engine, host_name, engine.site_rules, "site_slug")

manufacturer_slug(engine, hostname) ==
    _apply_rules(engine, hostname, engine.manufacturer_rules, "manufacturer_slug")

\* value.strip(): white space off both ends
RECURSIVE StripLeft(_, _)
StripLeft(text, chars) ==
    IF text # <<>> /\ Head(text) \in chars THEN StripLeft(Tail(text), chars)
    ELSE text

RECURSIVE StripRight(_, _)
StripRight(text, chars) ==
    IF text # <<>> /\ text[Len(text)] \in chars
    THEN StripRight(SubSeq(text, 1, Len(text) - 1), chars)
    ELSE text

Strip(text, chars) == StripRight(StripLeft(text, chars), chars)

SlugChars == Range(LowerChars) \cup Range(DigitChars)

\* re.sub(r"[^a-z0-9]+", "-", value)
RECURSIVE SubRuns(_, _)
SubRuns(text, in_run) ==
    IF text = <<>> THEN <<>>
    ELSE IF Head(text) \in SlugChars
    THEN <<Head(text)>> \o SubRuns(Tail(text), FALSE)
    ELSE (IF in_run THEN <<>> ELSE <<"-">>) \o SubRuns(Tail(text), TRUE)

\* a variant that keeps the case of the letters
_slugify_cased(value) ==
    Strip(SubRuns(Strip(value, SpaceChars), FALSE), {"-"})

_slugify(value) ==
    Strip(SubRuns(Lower(Strip(value, SpaceChars)), FALSE), {"-"})

RECURSIVE FirstValue(_, _)
FirstValue(rules, candidate) ==
    IF rules = <<>> THEN [error |-> NoError, value |-> NoText]
    ELSE LET r == RegexRule_apply(Head(rules), candidate)
         IN IF r.error # NoError THEN r
            ELSE IF TextTruthy(r.value) THEN r
            ELSE FirstValue(Tail(rules), candidate)

device_type_slug(engine, device_type) ==
    LET r == FirstValue(engine.device_type_rules, device_type)
        default_value == engine.defaults["device_type_slug"]
    IN IF r.error # NoError \/ TextTruthy(r.value) THEN r
       ELSE IF TextTruthy(default_value)
       THEN [error |-> NoError, value |-> default_value]
       ELSE [error |-> NoError, value |-> _slugify(device_type)]

RulesEngine(role_rules, site_rules, manufacturer_rules, device_type_rules, defaults) ==
    [role_rules |-> role_rules, site_rules |-> site_rules,
     manufacturer_rules |-> manufacturer_rules,
     device_type_rules |-> device_type_rules, defaults |-> defaults]

DefaultKeys == {"role_slug", "site_slug", "manufacturer_slug", "device_type_slug"}

\* no classification has been asked for
NoClassification == [absent |-> TRUE]

Classified(engine, category, candidate, result) ==
    [engine |-> engine, category |-> category, candidate |-> candidate,
     result |-> result]

\* the strings the classifier is asked about
Candidates ==
    { <<"a", "b", "-", "r", "t", "r", "1">>,
      <<"-", "r", "t", "r", "1">>,
      <<"A", "B", "-", "s", "w", "2">>,
      <<"U", "n", "k", "n", "o", "w", "n", " ", "M", "o", "d", "e", "l", " ",
        "5", "0", "0", "0">>,
      <<" ", "7", "7", "5", "0", " ", "S", "R", "-", "_", "1", "2", "e", "!">> }

RoleSlug ==
    /\ classified # NoClassification
    /\ \E host_name \in Candidates :
          classified' = Classified(classified.engine, "role_slug", host_name,
                                   role_slug(classified.engine, host_name))
    /\ UNCHANGED <<inventory, nb, pc, batch, post_batch, dependencies,
                   device_record, module_bay_cache, interface_cache, idx, calls,
                   error, nb0, history, lag_trace, config, dry, collected, entry>>

SiteSlug ==
    /\ classified # NoClassification
    /\ \E host_name \in Candidates :
          classified' = Classified(classified.engine, "site_slug", host_name,
                                   site_slug(classified.engine, host_name))
    /\ UNCHANGED <<inventory, nb, pc, batch, post_batch, dependencies,
                   device_record, module_bay_cache, interface_cache, idx, calls,
                   error, nb0, history, lag_trace, config, dry, collected, entry>>

ManufacturerSlug ==
    /\ classified # NoClassification
    /\ \E hostname \in Candidates :
          classified' = Classified(classified.engine, "manufacturer_slug",
                                   hostname,
                                   manufacturer_slug(classified.engine, hostname))
    /\ UNCHANGED <<inventory, nb, pc, batch, post_batch, dependencies,
                   device_record, module_bay_cache, interface_cache, idx, calls,
                   error, nb0, history, lag_trace, config, dry, collected, entry>>

DeviceTypeSlug ==
    /\ classified # NoClassification
    /\ \E device_type \in Candidates :
          classified' = Classified(classified.engine, "device_type_slug",
                                   device_type,
                                   device_type_slug(classified.engine, device_type))
    /\ UNCHANGED <<inventory, nb, pc, batch, post_batch, dependencies,
                   device_record, module_bay_cache, interface_cache, idx, calls,
                   error, nb0, history, lag_trace, config, dry, collected, entry>>

Literal(text) == [kind |-> "literal", text |-> text]
LeadingRun(kind) == [kind |-> kind, text |-> <<>>]
Template(text, field) == [text |-> text, field |-> field]

\* the rules a rule list is drawn from
RulePool ==
    { RegexRule(Literal(<<"r", "t", "r">>), <<"r", "o", "u", "t", "e", "r">>,
                NoTemplate, "none"),
      RegexRule(Literal(<<"r">>), <<"c", "o", "r", "e">>, NoTemplate, "upper"),
      RegexRule(LeadingRun("named"), NoText, Template(<<>>, "site"), "upper"),
      RegexRule(Literal(<<"s", "w">>), NoText, NoTemplate, "none"),
      RegexRule(LeadingRun("positional"), NoText,
                Template(<<"D", "C", "-">>, "0"), "lower") }

MaxRules == 2

\* the writes of the other client during one apply call
MaxExternal == 2

\* the records created through the fake API
MaxRecords == 2

\* the sessions one collector opens
MaxSessions == 2

RuleLists == UNION {[1..n -> RulePool] : n \in 0..MaxRules}

DefaultValues == {NoText, <<>>, <<"f", "a", "l", "l", "b", "a", "c", "k">>}

Engines ==
    { RulesEngine(t[1], t[1], t[1], t[1], [k \in DefaultKeys |-> t[2]]) :
        t \in RuleLists \X DefaultValues }

-----------------------------------------------------------------------------
(* NetmikoDataCollector: the harvester                                     *)
(* A command output is the sequence of its entries (a line, or the block of *)
(* one card); an entry maps each expression of the harvester that matches   *)
(* in it to what the expression captures there.                            *)

MdaPositions == <<"1", "2">>
MdaSlotModels == <<"mda-slot-1", "mda-slot-2">>
SerialNumbers == <<"NS1", "NS2">>

\* a value Python treats as false: None or the empty string
Falsy(v) == v = None \/ v = ""

\* re.findall(pattern, text): the captures, in the order of the entries
RECURSIVE FindAll(_, _)
FindAll(pattern, text) ==
    IF text = <<>> THEN <<>>
    ELSE (IF pattern \in DOMAIN Head(text) THEN <<Head(text)[pattern]>> ELSE <<>>)
         \o FindAll(pattern, Tail(text))

\* list(zip(a, b))
Zip(a, b) ==
    LET n == IF Len(a) < Len(b) THEN Len(a) ELSE Len(b)
    IN [i \in 1..n |-> <<a[i], b[i]>>]

\* the first match's capture, stripped, where the mutant raises nothing
_extract_first_blank(pattern, text) ==
    LET found == FindAll(pattern, text)
    IN [error |-> NoError,
        value |-> IF found = <<>> THEN <<>> ELSE Strip(found[1], SpaceChars)]

_extract_first(pattern, text) ==
    LET found == FindAll(pattern, text)
    IN IF found = <<>>
       THEN [error |-> Raise("ValueError", pattern), value |-> NoText]
       ELSE [error |-> NoError, value |-> Strip(found[1], SpaceChars)]

\* name.split()[-1]
_bay_position(name) ==
    IF Falsy(name) THEN None
    ELSE IF \E i \in DOMAIN BayNames : BayNames[i] = name
    THEN BayPositions[CHOOSE i \in DOMAIN BayNames : BayNames[i] = name]
    ELSE MdaPositions[CHOOSE i \in DOMAIN MdaNames : MdaNames[i] = name]

\* lag_members is a dict: its entries in insertion order
RECURSIVE _find_lag_for_port(_, _)
_find_lag_for_port(port_name, lag_members) ==
    IF lag_members = <<>> THEN None
    ELSE IF port_name \in Head(lag_members).members
    THEN Head(lag_members).name
    ELSE _find_lag_for_port(port_name, Tail(lag_members))

InterfaceRules(lag_default, physical_default, matches) ==
    [lag_default |-> lag_default, physical_default |-> physical_default,
     matches |-> matches]

\* a pattern is modelled by the names re.search finds it in
RECURSIVE FirstMatch(_, _, _)
FirstMatch(matches, interface_name, physical_default) ==
    IF matches = <<>> THEN physical_default
    ELSE LET matcher == Head(matches)
         IN IF /\ matcher.pattern.given
               /\ ~Falsy(matcher.type)
               /\ interface_name \in matcher.pattern.names
            THEN matcher.type
            ELSE FirstMatch(Tail(matches), interface_name, physical_default)

\* a variant that consults the patterns for a LAG too
interface_type_by_pattern(interface_rules, interface_name, is_lag) ==
    FirstMatch(interface_rules.matches, interface_name,
               IF is_lag THEN interface_rules.lag_default
               ELSE interface_rules.physical_default)

interface_type(interface_rules, interface_name, is_lag) ==
    IF is_lag THEN interface_rules.lag_default
    ELSE FirstMatch(interface_rules.matches, interface_name,
                    interface_rules.physical_default)

\* (bay_name, f"mda-slot-{slot}" when the line has no descriptor)
mda_modules(mda_matches) ==
    [i \in DOMAIN mda_matches |->
        <<MdaNames[mda_matches[i].slot],
          IF Falsy(mda_matches[i].descriptor)
          THEN MdaSlotModels[mda_matches[i].slot]
          ELSE mda_matches[i].descriptor>>]

\* module_entries is a dict keyed by (bay, model): its values in insertion order
add_module(module_entries, bay, model) ==
    IF Falsy(bay) \/ Falsy(model) THEN module_entries
    ELSE IF \E i \in DOMAIN module_entries :
               /\ module_entries[i].bay_name = bay
               /\ module_entries[i].module_type_model = model
    THEN module_entries
    ELSE Append(module_entries,
                [bay_name |-> bay, module_type_model |-> model,
                 status |-> "active", serial |-> None])

RECURSIVE AddModules(_, _)
AddModules(module_entries, pairs) ==
    IF pairs = <<>> THEN module_entries
    ELSE AddModules(add_module(module_entries, Head(pairs)[1], Head(pairs)[2]),
                    Tail(pairs))

\* lag_members.setdefault(f"LAG {lag_id}", set()).add(port), pair by pair
RECURSIVE LagMembers(_, _)
LagMembers(lag_members, regex_lag) ==
    IF regex_lag = <<>> THEN lag_members
    ELSE LET port == Head(regex_lag).port
             lag_name == LagNames[Head(regex_lag).lag_id]
             known == \E i \in DOMAIN lag_members : lag_members[i].name = lag_name
             added == [i \in DOMAIN lag_members |->
                         IF lag_members[i].name = lag_name
                         THEN [lag_members[i] EXCEPT !.members = @ \cup {port}]
                         ELSE lag_members[i]]
         IN LagMembers(IF known THEN added
                       ELSE Append(lag_members,
                                   [name |-> lag_name, members |-> {port}]),
                       Tail(regex_lag))

\* desc_map: a later line of a port replaces an earlier one
RECURSIVE DescMap(_, _)
DescMap(ports_up, port) ==
    IF ports_up = <<>> THEN None
    ELSE LET last == ports_up[Len(ports_up)]
         IN IF last.port = port
            THEN (IF last.description = "" THEN None ELSE last.description)
            ELSE DescMap(SubSeq(ports_up, 1, Len(ports_up) - 1), port)

LagEntry(lag_members, lag_name) ==
    lag_members[CHOOSE i \in DOMAIN lag_members : lag_members[i].name = lag_name]

lag_interfaces(interface_rules, lag_members) ==
    LET names == SortedNames({lag_members[i].name : i \in DOMAIN lag_members})
    IN [i \in DOMAIN names |->
          Iface(names[i], interface_type(interface_rules, names[i], TRUE),
                None, None)]

port_interfaces(interface_rules, ports_up, lag_members) ==
    LET ports_seen ==
            {ports_up[i].port : i \in DOMAIN ports_up}
            \cup UNION {lag_members[i].members : i \in DOMAIN lag_members}
        names == SortedNames(ports_seen)
    IN [i \in DOMAIN names |->
          Iface(names[i], interface_type(interface_rules, names[i], FALSE),
                DescMap(ports_up, names[i]),
                _find_lag_for_port(names[i], lag_members))]

\* the port loop adds each port to the LAG it was found in
harvested_lags(lag_members, interfaces) ==
    LET names == SortedNames({lag_members[i].name : i \in DOMAIN lag_members})
        found(n) == {interfaces[i].name : i \in
                        {j \in DOMAIN interfaces : interfaces[j].lag = n}}
    IN [i \in DOMAIN names |->
          Lag(names[i],
              SortedNames(LagEntry(lag_members, names[i]).members
                          \cup found(names[i])))]

NoInventory == [absent |-> TRUE]

HarvestFailed(raised) == [error |-> raised, inventory |-> NoInventory]

_harvest_nokia_sros(rules, interface_rules, raw) ==
    LET host_name == _extract_first("System Name", raw.chassis_detail)
        device_type_raw == _extract_first("System Type", raw.chassis_detail)
        serial_numbers == FindAll("CLEI", raw.card_detail)
        site == site_slug(rules, host_name.value)
        role == role_slug(rules, host_name.value)
        manufacturer == manufacturer_slug(rules, host_name.value)
        device_type == device_type_slug(rules, device_type_raw.value)
        device ==
            [name |-> host_name.value, site_slug |-> site.value,
             role_slug |-> role.value, manufacturer_slug |-> manufacturer.value,
             device_type_slug |-> device_type.value, status |-> "active",
             serial |-> IF serial_numbers = <<>> THEN None
                        ELSE serial_numbers[1],
             asset_tag |-> None, custom_fields |-> <<>>, tags |-> <<>>]
        mda_matches == raw.cli_output_mda
        mda_bays == [i \in DOMAIN mda_matches |-> MdaNames[mda_matches[i].slot]]
        card_names == FindAll("Card", raw.card_detail)
        card_types == raw.show_card
        card_modules == Zip(card_names, card_types)
        module_bay_matches == FindAll("Card", raw.card_detail)
        provisioned_type == FindAll("provisioned", raw.card_detail)
        module_pairs == Zip(module_bay_matches, provisioned_type)
        module_bay_names ==
            {module_pairs[i][1] : i \in DOMAIN module_pairs}
            \cup {card_modules[i][1] : i \in DOMAIN card_modules}
            \cup {mda_bays[i] : i \in DOMAIN mda_bays}
        bay_names == SortedNames(module_bay_names)
        module_bays ==
            [i \in DOMAIN bay_names |->
                [name |-> bay_names[i], label |-> bay_names[i],
                 position |-> _bay_position(bay_names[i])]]
        modules ==
            AddModules(AddModules(AddModules(<<>>, module_pairs), card_modules),
                       mda_modules(mda_matches))
        lag_members == LagMembers(<<>>, raw.find_lag)
        ports == port_interfaces(interface_rules, raw.ports_raw, lag_members)
        interfaces == lag_interfaces(interface_rules, lag_members) \o ports
        lags == harvested_lags(lag_members, ports)
    IN IF host_name.error # NoError THEN HarvestFailed(host_name.error)
       ELSE IF device_type_raw.error # NoError
       THEN HarvestFailed(device_type_raw.error)
       ELSE IF site.error # NoError THEN HarvestFailed(site.error)
       ELSE IF role.error # NoError THEN HarvestFailed(role.error)
       ELSE IF manufacturer.error # NoError THEN HarvestFailed(manufacturer.error)
       ELSE IF device_type.error # NoError THEN HarvestFailed(device_type.error)
       ELSE [error |-> NoError,
             inventory |-> Inventory(device, module_bays, modules, interfaces,
                                     lags)]

\* the collector with its rules, the outputs the device gives, the last and
\* the previous harvest
Collected(rules, interface_rules, raw, result, previous, reordered) ==
    [rules |-> rules, interface_rules |-> interface_rules, raw |-> raw,
     result |-> result, previous |-> previous, reordered |-> reordered]

Harvest ==
    /\ collected # NoHarvest
    /\ collected.result = NoHarvest
    /\ collected' =
          [collected EXCEPT
              !.result = _harvest_nokia_sros(collected.rules,
                                             collected.interface_rules,
                                             collected.raw)]
    /\ UNCHANGED <<inventory, nb, pc, batch, post_batch, dependencies,
                   device_record, module_bay_cache, interface_cache, idx, calls,
                   error, nb0, history, lag_trace, config, dry, classified, entry>>

OutputNames ==
    {"chassis_detail", "ports_raw", "card_detail", "cli_output_mda",
     "show_card", "find_lag"}

\* the entries i and j of an output change places
Swap(text, i, j) ==
    [k \in DOMAIN text |->
        IF k = i THEN text[j] ELSE IF k = j THEN text[i] ELSE text[k]]

\* the device gives the same entries in another order
Reorder ==
    /\ collected # NoHarvest
    /\ collected.result # NoHarvest
    /\ ~collected.reordered
    /\ \E output \in OutputNames :
          \E i, j \in DOMAIN collected.raw[output] :
              /\ i < j
              /\ collected.raw[output][i] # collected.raw[output][j]
              /\ collected' =
                    [collected EXCEPT
                        !.raw[output] = Swap(@, i, j),
                        !.previous = collected.result,
                        !.result = NoHarvest,
                        !.reordered = TRUE]
    /\ UNCHANGED <<inventory, nb, pc, batch, post_batch, dependencies,
                   device_record, module_bay_cache, interface_cache, idx, calls,
                   error, nb0, history, lag_trace, config, dry, classified, entry>>

\* the outputs the harvests start from
ChassisLine(label, value) == label :> value

\* the block of a card that is up, and of one the expressions for the
\* provisioned type and the CLEI code find nothing in
CardBlock(i, provisioned) ==
    [Card |-> BayNames[i], provisioned |-> provisioned, CLEI |-> SerialNumbers[i]]

BareBlock(i) == [Card |-> BayNames[i]]

MdaLine(slot, descriptor) == [slot |-> slot, descriptor |-> descriptor]

PortLine(port, description) == [port |-> port, description |-> description]

LagLine(port, lag_id) == [port |-> port, lag_id |-> lag_id]

Raw(chassis_detail, ports_raw, card_detail, cli_output_mda, show_card, find_lag) ==
    [chassis_detail |-> chassis_detail, ports_raw |-> ports_raw,
     card_detail |-> card_detail, cli_output_mda |-> cli_output_mda,
     show_card |-> show_card, find_lag |-> find_lag]

NameLine == ChassisLine("System Name", <<" ", "a", "b", "-", "r", "t", "r", "1">>)
BlankNameLine == ChassisLine("System Name", <<" ">>)
TypeLine == ChassisLine("System Type", <<"7", "7", "5", "0", " ", "S", "R">>)
VersionLine == ChassisLine("System Version", <<"C", "-", "2", "3">>)

\* the lines of a set, each at most once, in every order
RECURSIVE Arrangements(_)
Arrangements(S) ==
    {<<>>} \cup UNION {{<<x>> \o rest : rest \in Arrangements(S \ {x})} : x \in S}

ChassisDetails == Arrangements({NameLine, BlankNameLine, TypeLine, VersionLine})

CardDetails ==
    { <<>>,
      <<CardBlock(1, ModelNames[1])>>,
      <<CardBlock(1, ModelNames[1]), CardBlock(2, ModelNames[2])>>,
      <<CardBlock(1, None), CardBlock(2, ModelNames[2])>>,
      <<BareBlock(1), CardBlock(2, ModelNames[2])>> }

ShowCards == {<<>>, <<ModelNames[1]>>, <<ModelNames[2], ModelNames[1]>>}

MdaOutputs ==
    { <<>>,
      <<MdaLine(1, ModelNames[1])>>,
      <<MdaLine(2, ""), MdaLine(1, ModelNames[2])>> }

PortOutputs ==
    { <<>>,
      <<PortLine(PortNames[1], "to core")>>,
      <<PortLine(PortNames[2], "to edge"), PortLine(PortNames[1], "to core")>> }

LagOutputs ==
    { <<>>,
      <<LagLine(PortNames[1], 1)>>,
      <<LagLine(PortNames[1], 2), LagLine(PortNames[2], 1)>>,
      <<LagLine(PortNames[1], 1), LagLine(PortNames[1], 2)>>,
      <<LagLine(PortNames[1], 2), LagLine(PortNames[1], 1),
        LagLine(PortNames[3], 1)>> }

\* a pattern by the names it is found in
Pattern(names) == [given |-> TRUE, names |-> names]

\* the empty pattern: re.search finds it in every name, the loop passes it over
EmptyPattern == [given |-> FALSE, names |-> Range(PortNames) \cup Range(LagNames)]

Matcher(pattern, type) == [pattern |-> pattern, type |-> type]

InterfaceRuleSets ==
    { InterfaceRules("lag", "other", <<>>),
      InterfaceRules("lag", "other",
                     <<[pattern |-> Pattern({PortNames[1]}),
                        type |-> "10gbase-x-sfpp"]>>),
      InterfaceRules("lag", "other",
                     <<Matcher(Pattern({PortNames[1], PortNames[2]}), "1000base-t"),
                       Matcher(Pattern({PortNames[1]}), "10gbase-x-sfpp")>>),
      InterfaceRules("lag", "virtual",
                     <<Matcher(Pattern({PortNames[1]}), ""),
                       Matcher(Pattern({PortNames[1], PortNames[2], LagNames[1]}),
                               "10gbase-x-sfpp"),
                       Matcher(Pattern({PortNames[2]}), "1000base-t")>>),
      InterfaceRules("lag", "other",
                     <<Matcher(EmptyPattern, "virtual"),
                       Matcher(Pattern({PortNames[2]}), "1000base-t")>>) }

HarvestRules ==
    { RulesEngine(r, r, r, r, [k \in DefaultKeys |-> d]) :
        r \in {<<RegexRule(Literal(<<"r", "t", "r">>),
                           <<"r", "o", "u", "t", "e", "r">>, NoTemplate,
                           "none")>>},
        d \in {NoText, <<"s", "i", "m">>} }

PlainRules == CHOOSE e \in HarvestRules : e.defaults["site_slug"] # NoText

PlainChassis == <<NameLine, TypeLine>>

HarvestStarts ==
    { Collected(e, InterfaceRules("lag", "other", <<>>),
                Raw(c, <<>>, <<CardBlock(1, ModelNames[1])>>, <<>>, <<>>, <<>>),
                NoHarvest, NoHarvest, FALSE) :
        e \in HarvestRules, c \in ChassisDetails }
    \cup
    { Collected(PlainRules, InterfaceRules("lag", "other", <<>>),
                Raw(PlainChassis, <<>>, t[1], t[2], t[3], <<>>),
                NoHarvest, NoHarvest, FALSE) :
        t \in CardDetails \X MdaOutputs \X ShowCards }
    \cup
    { Collected(PlainRules, t[1],
                Raw(PlainChassis, t[2], <<>>, <<>>, <<>>, t[3]),
                NoHarvest, NoHarvest, FALSE) :
        t \in InterfaceRuleSets \X PortOutputs \X LagOutputs }

-----------------------------------------------------------------------------
(* The collector's session: connect_or_fail, harvest, disconnect            *)

\* self.conn is None
NoSession == NoId

\* rules is None
NoRules == [absent |-> TRUE]

\* the call made last: what it raised, what it returned, the commands it sent
Called(op, raised, returned, sent) ==
    [op |-> op, error |-> raised, inventory |-> returned, sent |-> sent]

NoCall == Called("none", NoError, NoInventory, 0)

\* __init__; opened and closed count ConnectHandler(...) and conn.disconnect(),
\* delivered tells that some harvest has returned an inventory
NetmikoDataCollector(device_os, rules, interface_rules, raw) ==
    [device_alias |-> device_os, rules |-> rules, interface_rules |-> interface_rules,
     raw |-> raw, conn |-> NoSession, host_name |-> NoText, device_type |-> NoText,
     opened |-> 0, closed |-> 0, delivered |-> FALSE, last |-> NoCall]

_ensure_connect(self) ==
    IF self.conn = NoSession
    THEN Raise("ConnectionError", "Device not yet connected")
    ELSE NoError

\* connect_or_fail, given what ConnectHandler raises
connect_or_fail(self, raised) ==
    IF raised = NoError
    THEN [self EXCEPT !.conn = self.opened + 1,
                      !.opened = @ + 1,
                      !.last = Called("connect_or_fail", NoError, NoInventory, 0)]
    ELSE IF raised.type \in {"NetmikoTimeoutException", "NetmikoAuthenticationException"}
    THEN [self EXCEPT
             !.last = Called("connect_or_fail",
                             Raise("ConnectionError", "Could not connect to device"),
                             NoInventory, 0)]
    ELSE [self EXCEPT !.last = Called("connect_or_fail", raised, NoInventory, 0)]

disconnect(self) ==
    IF self.conn # NoSession
    THEN [self EXCEPT !.conn = NoSession,
                      !.host_name = NoText,
                      !.device_type = NoText,
                      !.closed = @ + 1,
                      !.last = Called("disconnect", NoError, NoInventory, 0)]
    ELSE [self EXCEPT !.last = Called("disconnect", NoError, NoInventory, 0)]

\* the six show commands of _harvest_nokia_sros
ShowCommands == 6

\* harvest from the alias on: the commands are sent, the two names are kept
\* once both are extracted, the inventory is built
harvest_by_alias(self) ==
    IF self.rules = NoRules
    THEN [self EXCEPT !.last = Called("harvest", Raise("ValueError", "RulesEngine is required"),
                                      NoInventory, 0)]
    ELSE IF self.device_alias = "nokia_sros"
    THEN LET host_name == _extract_first("System Name", self.raw.chassis_detail)
             device_type_raw == _extract_first("System Type", self.raw.chassis_detail)
             extracted == host_name.error = NoError /\ device_type_raw.error = NoError
             built == _harvest_nokia_sros(self.rules, self.interface_rules, self.raw)
         IN [self EXCEPT
                !.host_name = IF extracted THEN host_name.value ELSE @,
                !.device_type = IF extracted THEN device_type_raw.value ELSE @,
                !.delivered = @ \/ built.error = NoError,
                !.last = Called("harvest", built.error, built.inventory, ShowCommands)]
    ELSE [self EXCEPT !.last = Called("harvest", Raise("ValueError", "Unsupported OS"),
                                      NoInventory, 0)]

\* a variant that goes on without asking for the session: the first command
\* is then sent to None
harvest_unchecked(self) ==
    IF self.conn = NoSession /\ self.rules # NoRules /\ self.device_alias = "nokia_sros"
    THEN [self EXCEPT !.last = Called("harvest", Raise("AttributeError", "send_command"),
                                      NoInventory, 0)]
    ELSE harvest_by_alias(self)

harvest(self) ==
    IF _ensure_connect(self) # NoError
    THEN [self EXCEPT !.last = Called("harvest", _ensure_connect(self), NoInventory, 0)]
    ELSE harvest_by_alias(self)

\* what ConnectHandler(...) raises
ConnectErrors ==
    { Raise("NetmikoTimeoutException", "timed out"),
      Raise("NetmikoAuthenticationException", "authentication failed"),
      Raise("ValueError", "Unsupported device_type") }

Collectors ==
    { NetmikoDataCollector(os, e, InterfaceRules("lag", "other", <<>>),
                           Raw(c, <<>>, <<CardBlock(1, ModelNames[1])>>, <<>>, <<>>, <<>>)) :
        os \in {"nokia_sros", "cisco_ios"},
        e \in HarvestRules \cup {NoRules},
        c \in {PlainChassis, <<TypeLine, NameLine>>, <<NameLine>>, <<>>} }

\* the session is what collected holds
SessionFrame ==
    UNCHANGED <<inventory, nb, pc, batch, post_batch, dependencies, device_record,
                module_bay_cache, interface_cache, idx, calls, error, nb0,
                history, lag_trace, config, dry, classified, entry>>

SessionConnect ==
    /\ collected.opened < MaxSessions
    /\ \E raised \in {NoError} \cup ConnectErrors :
          collected' = connect_or_fail(collected, raised)
    /\ SessionFrame

SessionHarvest ==
    /\ collected' = harvest(collected)
    /\ SessionFrame

SessionDisconnect ==
    /\ collected' = disconnect(collected)
    /\ SessionFrame

-----------------------------------------------------------------------------
(* The entry points: main of the command line and CreateNetmikoTest.run     *)

\* no entry point is running
NoEntry == [absent |-> TRUE]

NoToken == [token |-> None, error |-> NoError]

\* os.environ.get(name)
EnvironGet(environ, name) == IF name \in DOMAIN environ THEN environ[name] ELSE None

\* load_app_config, the token: a variant that reads the settings file first
load_app_config_file_first(environ, netbox_section, allow_missing_token) ==
    LET token_env == IF Truthy(DictGet(netbox_section, "token_env"))
                     THEN netbox_section.token_env ELSE "NETBOX_TOKEN"
        from_file == DictGet(netbox_section, "token")
        from_env == EnvironGet(environ, token_env)
    IN IF Truthy(from_file) THEN [token |-> from_file, error |-> NoError]
       ELSE IF Truthy(from_env) THEN [token |-> from_env, error |-> NoError]
       ELSE IF allow_missing_token
            THEN [token |-> "SIMULATED-TOKEN", error |-> NoError]
       ELSE [token |-> None, error |-> Raise("ValueError", "token")]

\* load_app_config, the token
load_app_config(environ, netbox_section, allow_missing_token) ==
    LET token_env == IF Truthy(DictGet(netbox_section, "token_env"))
                     THEN netbox_section.token_env ELSE "NETBOX_TOKEN"
        from_env == EnvironGet(environ, token_env)
        from_file == DictGet(netbox_section, "token")
    IN IF Truthy(from_env) THEN [token |-> from_env, error |-> NoError]
       ELSE IF Truthy(from_file) THEN [token |-> from_file, error |-> NoError]
       ELSE IF allow_missing_token
            THEN [token |-> "SIMULATED-TOKEN", error |-> NoError]
       ELSE [token |-> None, error |-> Raise("ValueError", "token")]

\* what the entry point writes: log.error / log_failure and the like
Logged(level, what, failure) == [level |-> level, what |-> what, failure |-> failure]

\* return 1 of main, return of run
Abort(point) == IF point = "cli" THEN "return 1" ELSE "return None"

\* the except clause around connect_or_fail and harvest
except_collection(run, failure) ==
    [run EXCEPT !.caught = failure,
                !.log = Append(@, Logged("error",
                                         IF run.point = "cli"
                                         THEN "Data collection failed"
                                         ELSE "Collection error", failure)),
                !.pending = Abort(run.point),
                !.step = "finally"]

\* a finally clause without the inner try
finally_disconnect_bare(run, raised) ==
    IF ~run.collector
    THEN [run EXCEPT !.step = IF run.pending # None THEN "returned" ELSE "dry_run",
                     !.outcome = run.pending]
    ELSE IF raised # NoError
    THEN [run EXCEPT !.disconnects = @ + 1,
                     !.disconnect_raised = raised,
                     !.step = "returned",
                     !.outcome = "raised",
                     !.uncaught = raised]
    ELSE [run EXCEPT !.disconnects = @ + 1,
                     !.conn = FALSE,
                     !.step = IF run.pending # None THEN "returned" ELSE "dry_run",
                     !.outcome = run.pending]

\* the finally clause: disconnect is called, what it raises is passed over
finally_disconnect(run, raised) ==
    IF ~run.collector
    THEN [run EXCEPT !.step = IF run.pending # None THEN "returned" ELSE "dry_run",
                     !.outcome = run.pending]
    ELSE [run EXCEPT !.disconnects = @ + 1,
                     !.disconnect_raised = raised,
                     !.conn = IF raised = NoError THEN FALSE ELSE @,
                     !.step = IF run.pending # None THEN "returned" ELSE "dry_run",
                     !.outcome = run.pending]

Environs ==
    { <<>>, [NETBOX_TOKEN |-> "env-token"], [NETBOX_TOKEN |-> ""],
      [NETBOX_TOKEN |-> "env-token", MY_TOKEN |-> "my-token"] }

NetboxSections ==
    { <<>>, [token |-> "file-token"], [token |-> ""], [token_env |-> "MY_TOKEN"],
      [token_env |-> "MY_TOKEN", token |-> "file-token"],
      [token_env |-> "", token |-> "file-token"] }

\* --simulate, --apply and --update-existing of main; commit and
\* update_existing of run, which has no simulation
Options(simulate, apply_changes, update_existing) ==
    [simulate |-> simulate, apply |-> apply_changes, update_existing |-> update_existing]

Run(point, options, environ, netbox_section) ==
    [point |-> point, simulate |-> options.simulate, apply |-> options.apply,
     update_existing |-> options.update_existing, environ |-> environ,
     netbox_section |-> netbox_section, step |-> "load", loaded |-> NoToken,
     collector |-> FALSE, conn |-> FALSE, disconnects |-> 0,
     disconnect_raised |-> NoError, caught |-> NoError, uncaught |-> NoError,
     log |-> <<>>, pending |-> None, outcome |-> None,
     dried |-> FALSE, actions |-> <<>>, applies |-> 0]

\* the entry points with the options each accepts
Invocations ==
    { t \in {"cli", "script"} \X BOOLEAN \X BOOLEAN \X BOOLEAN : t[2] => t[1] = "cli" }

EntryStarts ==
    { Run(t[1], Options(t[2], t[3], t[4]), e, s) :
        t \in Invocations, e \in Environs, s \in NetboxSections }

\* the actions of the proposals of a dry-run batch, in the order of actions()
DryActions ==
    { <<>>, <<"noop">>, <<"create", "create">>, <<"noop", "update">>,
      <<"update", "create">>, <<"noop", "noop">> }

\* any(action.action == "update" for action in batch.actions())
updates_present(acts) == \E i \in DOMAIN acts : acts[i] = "update"

\* return 0 of main, return of run
Done(point) == IF point = "cli" THEN "return 0" ELSE "return None"

\* a variant that asks for --update-existing only when nothing is created
update_gate_for_pure_updates(run) ==
    IF run.point = "cli" /\ run.simulate
    THEN [run EXCEPT !.step = "returned", !.outcome = Done(run.point)]
    ELSE IF ~run.apply
    THEN [run EXCEPT !.log = Append(@, Logged("info", "Dry-run only", NoError)),
                     !.step = "returned", !.outcome = Done(run.point)]
    ELSE IF /\ updates_present(run.actions)
            /\ \A i \in DOMAIN run.actions : run.actions[i] # "create"
            /\ ~run.update_existing
    THEN [run EXCEPT !.log = Append(@, Logged("error", "Updates detected", NoError)),
                     !.step = "returned", !.outcome = Abort(run.point)]
    ELSE [run EXCEPT !.step = "apply"]

\* what follows the dry-run summary, up to the call of builder.apply
update_gate(run) ==
    IF run.point = "cli" /\ run.simulate
    THEN [run EXCEPT !.step = "returned", !.outcome = Done(run.point)]
    ELSE IF ~run.apply
    THEN [run EXCEPT !.log = Append(@, Logged("info", "Dry-run only", NoError)),
                     !.step = "returned", !.outcome = Done(run.point)]
    ELSE IF updates_present(run.actions) /\ ~run.update_existing
    THEN [run EXCEPT !.log = Append(@, Logged("error", "Updates detected", NoError)),
                     !.step = "returned", !.outcome = Abort(run.point)]
    ELSE [run EXCEPT !.step = "apply"]

CollectionErrors ==
    { Raise("ConnectionError", "Could not connect to device"),
      Raise("ValueError", "System Type") }

DisconnectErrors == { Raise("OSError", "Socket is closed") }

EntryFrame ==
    UNCHANGED <<inventory, nb, pc, batch, post_batch, dependencies, device_record,
                module_bay_cache, interface_cache, idx, calls, error, nb0,
                history, lag_trace, config, dry, classified, collected>>

\* config = load_app_config(...), and the except clause around it
LoadConfig ==
    /\ entry # NoEntry
    /\ entry.step = "load"
    /\ LET r == load_app_config(entry.environ, entry.netbox_section,
                                entry.point = "cli" /\ entry.simulate)
       IN entry' =
             IF r.error # NoError
             THEN [entry EXCEPT
                      !.loaded = r,
                      !.log = Append(@, Logged("error",
                                               IF entry.point = "cli"
                                               THEN "Failed to load configuration"
                                               ELSE "Configuration error", r.error)),
                      !.step = "returned",
                      !.outcome = Abort(entry.point)]
             ELSE [entry EXCEPT
                      !.loaded = r,
                      !.step = IF entry.simulate THEN "dry_run" ELSE "construct"]
    /\ EntryFrame

\* collector = NetmikoDataCollector(...): inside the try in run, before it in main
Construct ==
    /\ entry # NoEntry
    /\ entry.step = "construct"
    /\ \E failure \in {NoError, Raise("KeyError", "device_type")} :
          entry' =
             IF failure = NoError
             THEN [entry EXCEPT !.collector = TRUE, !.step = "connect"]
             ELSE IF entry.point = "cli"
             THEN [entry EXCEPT !.step = "returned", !.outcome = "raised",
                                !.uncaught = failure]
             ELSE except_collection(entry, failure)
    /\ EntryFrame

\* collector.connect_or_fail()
Connect ==
    /\ entry # NoEntry
    /\ entry.step = "connect"
    /\ \E failure \in {NoError} \cup CollectionErrors :
          entry' =
             IF failure = NoError
             THEN [entry EXCEPT !.conn = TRUE, !.step = "harvest"]
             ELSE except_collection(entry, failure)
    /\ EntryFrame

\* inventory = collector.harvest()
Collect ==
    /\ entry # NoEntry
    /\ entry.step = "harvest"
    /\ \E failure \in {NoError} \cup CollectionErrors :
          entry' =
             IF failure = NoError
             THEN [entry EXCEPT
                      !.log = Append(@, Logged("info", "Harvest complete", NoError)),
                      !.step = "finally"]
             ELSE except_collection(entry, failure)
    /\ EntryFrame

\* the finally clause
Disconnect ==
    /\ entry # NoEntry
    /\ entry.step = "finally"
    /\ \E raised \in {NoError} \cup DisconnectErrors :
          /\ raised # NoError => entry.conn
          /\ entry' = finally_disconnect(entry, raised)
    /\ EntryFrame

\* builder.dry_run(inventory) and the summary: in a simulation the batch is
\* planned over the empty stand-in and holds creates only
Proceed ==
    /\ entry # NoEntry
    /\ entry.step = "dry_run"
    /\ \E failure \in {NoError, Raise("ValueError", "dry_run")}, acts \in DryActions :
          /\ entry.simulate => \A i \in DOMAIN acts : acts[i] = "create"
          /\ entry' =
                IF failure = NoError
                THEN [entry EXCEPT !.dried = TRUE, !.actions = acts, !.step = "gate"]
                ELSE [entry EXCEPT
                         !.log = Append(@, Logged("error", "Dry-run failed", failure)),
                         !.step = "returned",
                         !.outcome = Abort(entry.point)]
    /\ EntryFrame

\* the returns between the summary and builder.apply
Gate ==
    /\ entry # NoEntry
    /\ entry.step = "gate"
    /\ entry' = update_gate(entry)
    /\ EntryFrame

\* builder.apply(inventory), the except clause around it, and the report
CallApply ==
    /\ entry # NoEntry
    /\ entry.step = "apply"
    /\ \E failure \in {NoError, Raise("RuntimeError", "apply")} :
          entry' =
             IF failure = NoError
             THEN [entry EXCEPT
                      !.applies = @ + 1,
                      !.log = Append(@, Logged("info", "synchronization complete", NoError)),
                      !.step = "returned",
                      !.outcome = Done(entry.point)]
             ELSE [entry EXCEPT
                      !.applies = @ + 1,
                      !.log = Append(@, Logged("error", "Apply failed", failure)),
                      !.step = "returned",
                      !.outcome = Abort(entry.point)]
    /\ EntryFrame

-----------------------------------------------------------------------------
(* The specification *)

Init ==
    /\ \E s \in Starts : inventory = s.inventory /\ nb = s.nb
    /\ config = DefaultConfig
    /\ pc = "idle"
    /\ batch = NoBatch
    /\ post_batch = NoBatch
    /\ dependencies = NoDependencies
    /\ device_record = NoId
    /\ module_bay_cache = <<>>
    /\ interface_cache = <<>>
    /\ idx = 1
    /\ calls = <<>>
    /\ error = NoError
    /\ nb0 = nb
    /\ history = <<>>
    /\ lag_trace = <<>>
    /\ dry = NoDryRun
    /\ classified = NoClassification
    /\ collected = NoHarvest
    /\ entry = NoEntry

Next ==
    \/ DryRun
    \/ Plan
    \/ ResolveDependencies
    \/ ApplyDevice
    \/ ApplyModuleBay
    \/ ApplyModule
    \/ ApplyInterface
    \/ ApplyLagMembership
    \/ Verify
    \/ Return
    \/ Repair

Spec == Init /\ [][Next]_vars

\* apply is not running and cannot start
Parked ==
    /\ inventory = SampleInventory("lag")
    /\ nb = Remote({}, {}, {}, {}, <<>>, <<>>, <<>>, <<>>, <<>>)
    /\ config = DefaultConfig
    /\ pc = "parked"
    /\ batch = NoBatch
    /\ post_batch = NoBatch
    /\ dependencies = NoDependencies
    /\ device_record = NoId
    /\ module_bay_cache = <<>>
    /\ interface_cache = <<>>
    /\ idx = 1
    /\ calls = <<>>
    /\ error = NoError
    /\ nb0 = nb
    /\ history = <<>>
    /\ lag_trace = <<>>
    /\ dry = NoDryRun

\* the classifier on its own: an engine is configured, then asked
RulesInit ==
    /\ Parked
    /\ collected = NoHarvest
    /\ entry = NoEntry
    /\ \E engine \in Engines :
          classified = Classified(engine, "none", <<>>,
                                  [error |-> NoError, value |-> NoText])

RulesNext == RoleSlug \/ SiteSlug \/ ManufacturerSlug \/ DeviceTypeSlug

RulesSpec == RulesInit /\ [][RulesNext]_vars

\* the harvester on its own: a collector is given its rules and its device
HarvestInit ==
    /\ Parked
    /\ classified = NoClassification
    /\ collected \in HarvestStarts
    /\ entry = NoEntry

HarvestNext == Harvest \/ Reorder

HarvestSpec == HarvestInit /\ [][HarvestNext]_vars

\* a collector on its own: any sequence of its three calls
SessionInit ==
    /\ Parked
    /\ classified = NoClassification
    /\ collected \in Collectors
    /\ entry = NoEntry

SessionNext == SessionConnect \/ SessionHarvest \/ SessionDisconnect

SessionSpec == SessionInit /\ [][SessionNext]_vars

\* planning on its own: inventories and configurations with and without
\* suffixes, a remote side with and without the suffixed device
SuffixConfigs ==
    { [device_name_suffix |-> s, device_type_suffix |-> t] :
        s \in {"", "-lab"}, t \in {"", "-sim"} }

SuffixInventories ==
    { [SampleInventory("lag") EXCEPT !.device.name = n,
                                     !.device.device_type_slug = t] :
        n \in {"SIM-SROS-01", "SIM-SROS-01-lab", "lab"},
        t \in {"nokia-7750-sr", "nokia-7750-sr-sim"} }

SuffixRemotes ==
    { Remote({"sim"}, {"access-switch"}, {"nokia"}, {NokiaType}, <<>>, d,
             <<>>, <<>>, <<>>) :
        d \in {<<>>, <<[MatchingDevice EXCEPT !.name = "SIM-SROS-01-lab"]>>} }

DryInit ==
    /\ inventory \in SuffixInventories
    /\ nb \in SuffixRemotes
    /\ config \in SuffixConfigs
    /\ pc = "idle"
    /\ batch = NoBatch
    /\ post_batch = NoBatch
    /\ dependencies = NoDependencies
    /\ device_record = NoId
    /\ module_bay_cache = <<>>
    /\ interface_cache = <<>>
    /\ idx = 1
    /\ calls = <<>>
    /\ error = NoError
    /\ nb0 = nb
    /\ history = <<>>
    /\ lag_trace = <<>>
    /\ dry = NoDryRun
    /\ classified = NoClassification
    /\ collected = NoHarvest
    /\ entry = NoEntry

\* the resolved inventory plan returned is handed in again
Resubmit ==
    /\ pc = "idle"
    /\ inventory' = _apply_suffixes(config, inventory)
    /\ inventory' # inventory
    /\ UNCHANGED <<nb, pc, batch, post_batch, dependencies, device_record,
                   module_bay_cache, interface_cache, idx, calls, error, nb0,
                   history, lag_trace, config, dry, classified, collected, entry>>

\* plan as apply calls it; apply reads the resolved inventory from then on
DryNext == DryRun \/ Resubmit \/ Plan

DrySpec == DryInit /\ [][DryNext]_vars

\* apply beside another writer of the remote system; calls is then the log
\* of the requests the remote system has served, the other writer's under
\* the step "external"
RaceInventory ==
    Inventory(Device("nokia", "SN1"), <<>>, <<>>,
              <<Iface(PortNames[1], "other", "uplink", None)>>, <<>>)

RaceRemotes ==
    { Remote({"sim"}, {"access-switch"}, {"nokia"}, {NokiaType}, <<>>,
             <<RemoteDevice(t[1], "sim", "nokia-7750-sr", t[2])>>, <<>>, <<>>,
             t[3]) :
        t \in {"active", "planned"} \X {None, "SN1"}
              \X ({<<>>} \cup
                  { <<[InterfaceDefaults EXCEPT
                          !.device = 1, !.name = PortNames[1], !.type = "other",
                          !.description = d]>> : d \in {None, "uplink"} }) }
    \cup
    { Remote({"sim"}, {"access-switch"}, {"nokia"}, {NokiaType}, <<>>, <<>>,
             <<>>, <<>>, <<>>) }

RaceInit ==
    /\ inventory = RaceInventory
    /\ nb \in RaceRemotes
    /\ config = DefaultConfig
    /\ pc = "idle"
    /\ batch = NoBatch
    /\ post_batch = NoBatch
    /\ dependencies = NoDependencies
    /\ device_record = NoId
    /\ module_bay_cache = <<>>
    /\ interface_cache = <<>>
    /\ idx = 1
    /\ calls = <<>>
    /\ error = NoError
    /\ nb0 = nb
    /\ history = <<>>
    /\ lag_trace = <<>>
    /\ dry = NoDryRun
    /\ classified = NoClassification
    /\ collected = NoHarvest
    /\ entry = NoEntry

ExternalFields ==
    { <<"devices", "status", "staged">>, <<"devices", "status", "active">>,
      <<"devices", "serial", "SN9">>, <<"devices", "serial", "SN1">>,
      <<"devices", "asset_tag", "A1">>,
      <<"interfaces", "description", "patched">>,
      <<"interfaces", "description", "uplink">>,
      <<"interfaces", "type", "virtual">> }

\* the requests of the other writer the log holds
External(log) == SelectSeq(log, LAMBDA c : c.step = "external")

\* another client updates one field of a record between the plan and a write
ExternalWrite ==
    /\ pc \in {"resolve", "device", "interfaces"}
    /\ Len(External(calls)) < MaxExternal
    /\ \E w \in ExternalFields : \E id \in DOMAIN nb[w[1]] :
          /\ nb[w[1]][id][w[2]] # w[3]
          /\ nb' = [nb EXCEPT ![w[1]][id][w[2]] = w[3]]
          /\ calls' = calls \o Issued("external",
                          <<Call("update", w[1], id, [k \in {w[2]} |-> w[3]])>>)
    /\ UNCHANGED <<inventory, pc, batch, post_batch, dependencies,
                   device_record, module_bay_cache, interface_cache, idx, error,
                   nb0, history, lag_trace, config, dry, classified, collected, entry>>

\* another client registers the device, or the port on the device, that the
\* remote system does not hold yet
ExternalCreate ==
    /\ pc \in {"resolve", "device", "interfaces"}
    /\ Len(External(calls)) < MaxExternal
    /\ LET device == DevicesGet(nb, inventory.device.name)
           port == inventory.interfaces[1].name
       IN \/ /\ device = NoId
             /\ nb' = [nb EXCEPT !.devices = Append(@, MatchingDevice)]
             /\ calls' = calls \o Issued("external",
                             <<Call("create", "devices", Len(nb.devices) + 1,
                                    [name |-> MatchingDevice.name])>>)
          \/ /\ device # NoId
             /\ InterfacesGet(nb, device, port) = NoId
             /\ nb' = [nb EXCEPT
                          !.interfaces = Append(@, NewInterface(device, port, "other"))]
             /\ calls' = calls \o Issued("external",
                             <<Call("create", "interfaces", Len(nb.interfaces) + 1,
                                    [device |-> device, name |-> port])>>)
    /\ UNCHANGED <<inventory, pc, batch, post_batch, dependencies,
                   device_record, module_bay_cache, interface_cache, idx, error,
                   nb0, history, lag_trace, config, dry, classified, collected, entry>>

RaceNext ==
    \/ Plan
    \/ ResolveDependencies
    \/ ApplyDevice
    \/ ApplyInterface
    \/ Verify
    \/ ExternalWrite
    \/ ExternalCreate

RaceSpec == RaceInit /\ [][RaceNext]_vars

-----------------------------------------------------------------------------
(* The simulation API of the command line: nb is then the fake API, and     *)
(* calls holds its last request with what the request returned.             *)

FakeEndpoints ==
    {"devices", "module_bays", "modules", "interfaces", "manufacturers",
     "device_types", "module_types", "sites", "device_roles"}

_build_fake_netbox_api == [records |-> [e \in FakeEndpoints |-> <<>>], next_id |-> 1]

\* a variant of get that looks the name up among the records created
_FakeEndpoint_get_lookup(api, endpoint, kwargs) ==
    LET hits == {i \in DOMAIN api.records[endpoint] :
                    \A k \in DOMAIN kwargs :
                        /\ k \in DOMAIN api.records[endpoint][i].data
                        /\ api.records[endpoint][i].data[k] = kwargs[k]}
    IN IF hits = {} THEN NoId
       ELSE api.records[endpoint][CHOOSE i \in hits : TRUE].id

_FakeEndpoint_get(api, endpoint, kwargs) == NoId

_FakeEndpoint_filter(api, endpoint, kwargs) == <<>>

_FakeEndpoint_create(api, endpoint, payload) ==
    LET record == [id |-> api.next_id, data |-> payload]
    IN [api |-> [records |-> [api.records EXCEPT ![endpoint] = Append(@, record)],
                 next_id |-> api.next_id + 1],
        record |-> record]

\* dict.update(payload): keys are added and replaced
DictUpdate(data, payload) ==
    [k \in DOMAIN data \cup DOMAIN payload |->
        IF k \in DOMAIN payload THEN payload[k] ELSE data[k]]

_FakeRecord_update(api, endpoint, i, payload) ==
    LET record == [api.records[endpoint][i] EXCEPT !.data = DictUpdate(@, payload)]
    IN [api |-> [api EXCEPT !.records[endpoint][i] = record], record |-> record]

_FakeRecord_serialize(record) == record.data

\* the remote state the proposal engine reads through get and filter
FakeRemote(api) ==
    LET all(e) == _FakeEndpoint_filter(api, e, <<>>)
        slugs(e) == {all(e)[i].data.slug : i \in DOMAIN all(e)}
    IN Remote(slugs("sites"), slugs("device_roles"), slugs("manufacturers"),
              {all("device_types")[i].data : i \in DOMAIN all("device_types")},
              all("module_types"), all("devices"), all("module_bays"),
              all("modules"), all("interfaces"))

FakePayloads ==
    { [name |-> "test-device"], [status |-> "active"] }

FakeRecords(api) == UNION {Range(api.records[e]) : e \in FakeEndpoints}

FakeCreate ==
    /\ Cardinality(FakeRecords(nb)) < MaxRecords
    /\ \E endpoint \in FakeEndpoints, payload \in FakePayloads :
          LET r == _FakeEndpoint_create(nb, endpoint, payload)
          IN /\ nb' = r.api
             /\ calls' = <<[op |-> "create", kind |-> endpoint,
                            payload |-> payload, record |-> r.record.id,
                            returned |-> _FakeRecord_serialize(r.record),
                            before |-> <<>>]>>
    /\ UNCHANGED <<inventory, pc, batch, post_batch, dependencies,
                   device_record, module_bay_cache, interface_cache, idx, error,
                   nb0, history, lag_trace, config, dry, classified, collected, entry>>

FakeUpdate ==
    /\ \E endpoint \in FakeEndpoints, payload \in FakePayloads :
          \E i \in DOMAIN nb.records[endpoint] :
              LET r == _FakeRecord_update(nb, endpoint, i, payload)
              IN /\ nb' = r.api
                 /\ calls' = <<[op |-> "update", kind |-> endpoint,
                                payload |-> payload, record |-> r.record.id,
                                returned |-> _FakeRecord_serialize(r.record),
                                before |-> nb.records[endpoint][i].data]>>
    /\ UNCHANGED <<inventory, pc, batch, post_batch, dependencies,
                   device_record, module_bay_cache, interface_cache, idx, error,
                   nb0, history, lag_trace, config, dry, classified, collected, entry>>

\* the builder of the simulation plans against the fake API
FakePlan ==
    /\ batch' = plan(config, FakeRemote(nb), inventory)
    /\ batch' # batch
    /\ UNCHANGED <<inventory, nb, pc, post_batch, dependencies, device_record,
                   module_bay_cache, interface_cache, idx, calls, error, nb0,
                   history, lag_trace, config, dry, classified, collected, entry>>

FakeInit ==
    /\ inventory = SampleInventory("lag")
    /\ nb = _build_fake_netbox_api
    /\ config = DefaultConfig
    /\ pc = "parked"
    /\ batch = NoBatch
    /\ post_batch = NoBatch
    /\ dependencies = NoDependencies
    /\ device_record = NoId
    /\ module_bay_cache = <<>>
    /\ interface_cache = <<>>
    /\ idx = 1
    /\ calls = <<>>
    /\ error = NoError
    /\ nb0 = nb
    /\ history = <<>>
    /\ lag_trace = <<>>
    /\ dry = NoDryRun
    /\ classified = NoClassification
    /\ collected = NoHarvest
    /\ entry = NoEntry

FakeNext == FakeCreate \/ FakeUpdate \/ FakePlan

FakeSpec == FakeInit /\ [][FakeNext]_vars

\* an entry point on its own: it is started, then runs to its return
EntryInit ==
    /\ Parked
    /\ classified = NoClassification
    /\ collected = NoHarvest
    /\ entry \in EntryStarts

EntryNext ==
    LoadConfig \/ Construct \/ Connect \/ Collect \/ Disconnect \/ Proceed \/ Gate
        \/ CallApply

EntrySpec == EntryInit /\ [][EntryNext]_vars

\* the entry point is one thread of control: a step that can be taken is taken
EntryLiveSpec == EntrySpec /\ WF_vars(EntryNext)

-----------------------------------------------------------------------------
(* Properties *)

Proposals(b) == IF b = NoBatch THEN <<>> ELSE actions(b)

AllNoop(b) == \A i \in DOMAIN Proposals(b) : Proposals(b)[i].action = "noop"

\* the names of the interfaces of the device whose lag field points at the
\* interface called lag_name, read straight from the remote collections
LiveMembers(nbv, device_id, lag_name) ==
    { nbv.interfaces[i].name : i \in
        { j \in DOMAIN nbv.interfaces :
            /\ nbv.interfaces[j].device = device_id
            /\ nbv.interfaces[j].lag # NoId
            /\ nbv.interfaces[nbv.interfaces[j].lag].name = lag_name } }

\* C1 (idempotence): for every inventory and every initial remote state, when
\* apply returns successfully the batch it recomputes against the resulting
\* remote state holds only noop proposals.
C1_PostApplyAllNoop == pc = "done" => AllNoop(post_batch)

NonNull(desired) ==
    [k \in {j \in DOMAIN desired : ~IsNone(j, desired[j])} |-> desired[k]]

\* C3 (create when absent): when the remote system holds no device with the
\* inventory's device name, every proposal of the planned batch (device, bays,
\* modules, interfaces, LAGs) is a create without a current map, and its diff
\* is the desired map restricted to its non-null fields.
C3_AllCreateWhenDeviceAbsent ==
    (/\ batch # NoBatch
     /\ \A i \in DOMAIN nb0.devices :
            nb0.devices[i].name # _apply_suffixes(config, inventory).device.name)
    => \A i \in DOMAIN Proposals(batch) :
          LET p == Proposals(batch)[i]
          IN /\ p.action = "create"
             /\ p.current = NoDict
             /\ p.diff = NonNull(p.desired)

\* C3: the sample inventory SIM-SROS-01 planned against an empty remote system
C3_SampleAgainstEmptyRemote ==
    /\ pc = "resolve"
    /\ inventory = SampleInventory("lag")
    /\ nb0.devices = <<>>
    /\ Len(Proposals(batch)) = 9
    /\ \A i \in DOMAIN Proposals(batch) : Proposals(batch)[i].action = "create"
    /\ batch.device.diff # batch.device.desired

\* the keys of a proposal's desired map whose value differs from the current
\* map of the remote object; a key the current map lacks differs
DifferingKeys(p) ==
    LET cur == IF p.current = NoDict THEN <<>> ELSE p.current
    IN {k \in DOMAIN p.desired : k \notin DOMAIN cur \/ cur[k] # p.desired[k]}

RemoteExists(nbv, p) ==
    LET name == _apply_suffixes(config, inventory).device.name
        mine(r) == /\ r.device \in DOMAIN nbv.devices
                   /\ nbv.devices[r.device].name = name
    IN CASE p.model = "device" ->
                \E i \in DOMAIN nbv.devices : nbv.devices[i].name = p.identifier
         [] p.model = "module_bay" ->
                \E i \in DOMAIN nbv.module_bays :
                    mine(nbv.module_bays[i])
                        /\ nbv.module_bays[i].name = p.identifier
         [] p.model = "module" ->
                \E i \in DOMAIN nbv.modules :
                    /\ mine(nbv.modules[i])
                    /\ nbv.modules[i].module_bay # NoId
                    /\ nbv.module_bays[nbv.modules[i].module_bay].name
                            = p.desired.bay_name
         [] OTHER ->
                \E i \in DOMAIN nbv.interfaces :
                    mine(nbv.interfaces[i])
                        /\ nbv.interfaces[i].name = p.identifier

\* desired equals the remote object on every desired field: for a LAG the
\* member set the remote interfaces give it, for the other kinds the values
\* read into the proposal's current map
EqualsRemote(nbv, p) ==
    IF p.model = "lag"
    THEN Range(p.desired.members)
            = LiveMembers(nbv, DevicesGet(nbv, batch.device.identifier),
                          p.identifier)
    ELSE /\ p.current # NoDict
         /\ \A k \in DOMAIN p.desired :
               k \in DOMAIN p.current /\ p.current[k] = p.desired[k]

Trichotomy(nbv, b) ==
    \A i \in DOMAIN Proposals(b) :
        LET p == Proposals(b)[i]
            exists == RemoteExists(nbv, p)
        IN /\ p.action \in {"create", "update", "noop"}
           /\ p.action = "create" <=> ~exists
           /\ p.action = "noop" <=> (exists /\ EqualsRemote(nbv, p))
           /\ p.action = "update" <=> (exists /\ ~EqualsRemote(nbv, p))

\* C5 (action trichotomy): every proposal (device, bay, module, interface,
\* LAG) of every batch is create exactly when its remote object does not
\* exist, noop exactly when it exists and desired equals current on every
\* desired field, and update exactly when it exists and some desired field
\* differs; checked for the planned batch against the remote state it was
\* planned on and for the post-apply batch against the state apply left.
C5_ActionTrichotomy ==
    /\ Trichotomy(nb0, batch)
    /\ pc = "done" => Trichotomy(nb, post_batch)

\* C6 (interface ordering): in the interface proposals of a plan, the proposal
\* of a LAG interface precedes the proposal of every interface whose desired
\* lag field names it, whatever type slug the classifier gives LAG interfaces.
C6_LagInterfaceBeforeMembers ==
    \A i, j \in DOMAIN batch.interfaces :
        (/\ "lag" \in DOMAIN batch.interfaces[j].desired
         /\ batch.interfaces[j].desired.lag = batch.interfaces[i].identifier)
        => i < j

StepRank(step) ==
    CASE step = "device" -> 1
      [] step = "module_bays" -> 2
      [] step = "modules" -> 3
      [] step = "interfaces" -> 4
      [] step = "lags" -> 5

\* the collection each step of apply writes to
StepKind(step) ==
    CASE step = "device" -> "devices"
      [] step = "module_bays" -> "module_bays"
      [] step = "modules" -> "modules"
      [] OTHER -> "interfaces"

\* the interface proposal p has been carried out by a write of the interface
\* pass: a create of that name, or an update of the record of that name
InterfaceApplied(p) ==
    \E k \in DOMAIN calls :
        /\ calls[k].step = "interfaces"
        /\ calls[k].op = p.action
        /\ nb.interfaces[calls[k].id].name = p.identifier

\* C7 (write order): within one apply the writes go out as the device write,
\* then the bay writes, then the module writes, then the interface writes,
\* then the LAG-membership updates; no module is written before its bay
\* exists remotely, and no LAG-membership update is issued before every
\* interface proposal has been applied.
C7_WriteOrder ==
    /\ \A i, j \in DOMAIN calls :
          i < j => StepRank(calls[i].step) <= StepRank(calls[j].step)
    /\ \A i \in DOMAIN calls :
          /\ calls[i].kind = StepKind(calls[i].step)
          /\ calls[i].step = "lags" => DOMAIN calls[i].payload = {"lag"}
          /\ (calls[i].kind = "modules" /\ calls[i].op = "create") =>
                \/ calls[i].payload.module_bay \in DOMAIN nb0.module_bays
                \/ \E k \in 1..(i - 1) :
                      /\ calls[k].kind = "module_bays"
                      /\ calls[k].op = "create"
                      /\ calls[k].id = calls[i].payload.module_bay
    /\ (\E i \in DOMAIN calls : calls[i].step = "lags") =>
          \A j \in DOMAIN batch.interfaces :
              batch.interfaces[j].action # "noop" =>
                  InterfaceApplied(batch.interfaces[j])

\* C7: one apply that wrote in all five steps, a LAG-membership update last
C7_AllFiveSteps ==
    /\ pc = "done"
    /\ {calls[i].step : i \in DOMAIN calls}
          = {"device", "module_bays", "modules", "interfaces", "lags"}
    /\ calls[Len(calls)].step = "lags"

\* the objects the device refers to that the remote state nbv does not hold
MissingDependencies(nbv, device) ==
    LET absent(e) ==
            CASE e.type = "site" -> e.what \notin nbv.sites
              [] e.type = "role" -> e.what \notin nbv.device_roles
              [] e.type = "device_type" ->
                    \A t \in nbv.device_types : t.slug # e.what
              [] OTHER -> e.what # "" /\ e.what \notin nbv.manufacturers
    IN {e \in {[type |-> "site", what |-> device.site_slug],
               [type |-> "role", what |-> device.role_slug],
               [type |-> "device_type", what |-> device.device_type_slug],
               [type |-> "manufacturer", what |-> device.manufacturer_slug]} :
            absent(e)}

\* C8 (validation before writes): when the site, the role, the device type or
\* the configured manufacturer of the inventory's device is missing from the
\* remote system, apply fails with an error naming a missing slug and has
\* issued no create or update: the remote state is the one it started from.
C8_MissingDependencyNoWrite ==
    LET missing == MissingDependencies(
                       nb0, _apply_suffixes(config, inventory).device)
    IN (pc \notin {"idle", "resolve"} /\ missing # {}) =>
          /\ pc = "failed"
          /\ error \in missing
          /\ calls = <<>>
          /\ nb = nb0

\* C8: the site is absent; apply has failed naming it, with no write, although
\* the plan held a device to create
C8_SiteMissing ==
    /\ pc = "failed"
    /\ inventory.device.site_slug \notin nb0.sites
    /\ error = [type |-> "site", what |-> inventory.device.site_slug]
    /\ batch.device.action = "create"
    /\ calls = <<>>
    /\ nb = nb0

\* the remote state that results from nbv by the logged calls cs, in order
RECURSIVE Replay(_, _)
Replay(nbv, cs) ==
    IF cs = <<>> THEN nbv
    ELSE LET c == Head(cs)
             defaults == CASE c.kind = "devices" -> DeviceDefaults
                           [] c.kind = "module_bays" -> ModuleBayDefaults
                           [] c.kind = "modules" -> ModuleDefaults
                           [] OTHER -> InterfaceDefaults
             written == IF c.op = "create"
                        THEN [nbv EXCEPT ![c.kind] =
                                Append(@, Merge(defaults, c.payload))]
                        ELSE [nbv EXCEPT ![c.kind][c.id] = Merge(@, c.payload)]
         IN Replay(written, Tail(cs))

\* C9 (partial failure): when a step of apply fails, apply raises there and
\* does not retry; no write of a later proposal or a later step is issued, no
\* compensating write undoes an earlier one, and every write made before the
\* failure remains in the remote state.
C9_FailureKeepsWrites ==
    [][ /\ (pc # "failed" /\ pc' = "failed") =>
              /\ SubSeq(calls', 1, Len(calls)) = calls
              /\ \A i \in DOMAIN calls' :
                    /\ pc # "resolve"
                    /\ StepRank(calls'[i].step) <= StepRank(pc)
              /\ nb' = Replay(nb0, calls')
        /\ pc = "failed" =>
              /\ pc' \in {"failed", "idle"}
              /\ nb' = nb
              /\ calls' = calls ]_vars

\* C9: against an empty remote the device and the bays were created, then the
\* module step failed on a missing module type; device and bays are still there
C9_ModuleStepFailed ==
    /\ pc = "failed"
    /\ error.type = "module_type"
    /\ nb0.devices = <<>>
    /\ Len(nb.devices) = 1
    /\ Len(nb.module_bays) = Len(inventory.module_bays)
    /\ Len(nb.module_bays) > 0
    /\ nb.modules = <<>>
    /\ Len(calls) = 1 + Len(nb.module_bays)

\* the last apply call failed after it had written, and the object it named
\* as missing has been provided since
Rerun ==
    /\ history # <<>>
    /\ history[Len(history)].result = "failed"
    /\ history[Len(history)].wrote
    /\ history[Len(history)].repaired

\* no two devices of one name, no two bays or interfaces of one name on a
\* device, no two modules in one bay
NoDuplicates(nbv) ==
    /\ \A i, j \in DOMAIN nbv.devices :
          nbv.devices[i].name = nbv.devices[j].name => i = j
    /\ \A i, j \in DOMAIN nbv.module_bays :
          (/\ nbv.module_bays[i].device = nbv.module_bays[j].device
           /\ nbv.module_bays[i].name = nbv.module_bays[j].name) => i = j
    /\ \A i, j \in DOMAIN nbv.modules :
          (/\ nbv.modules[i].device = nbv.modules[j].device
           /\ nbv.modules[i].module_bay = nbv.modules[j].module_bay) => i = j
    /\ \A i, j \in DOMAIN nbv.interfaces :
          (/\ nbv.interfaces[i].device = nbv.interfaces[j].device
           /\ nbv.interfaces[i].name = nbv.interfaces[j].name) => i = j

\* C10 (re-run convergence): after an apply that failed part-way and left the
\* remote state partially written, once the missing remote object is present,
\* a further apply of the same inventory that runs to its end leaves no
\* duplicate device, bay, module or interface and yields an all-noop
\* post-apply batch.
C10_RerunConverges ==
    (Rerun /\ pc = "done") => NoDuplicates(nb) /\ AllNoop(post_batch)

\* the proposal the current step of apply works on
CurrentProposal == IF pc = "device" THEN batch.device ELSE batch[pc][idx]

\* the remote field a diff key is written to
PayloadField(k) == IF k = "module_type_model" THEN "module_type" ELSE k

\* the calls the step just taken has issued
NewCalls == SubSeq(calls', Len(calls) + 1, Len(calls'))

RemoteKinds == {"devices", "module_bays", "modules", "interfaces"}

\* what one step of apply may do when it issues an update
UpdateWithinDiff ==
    pc \in {"device", "module_bays", "modules", "interfaces"} =>
        \A i \in DOMAIN NewCalls :
            NewCalls[i].op = "update" =>
                LET c == NewCalls[i]
                    p == CurrentProposal
                    fields == IF p.diff = NoDict THEN {}
                              ELSE {PayloadField(k) : k \in DOMAIN p.diff}
                IN /\ p.action = "update"
                   /\ c.kind = StepKind(pc)
                   /\ DOMAIN c.payload \subseteq fields
                   /\ \A k \in DOMAIN nb[c.kind][c.id] \ fields :
                          nb'[c.kind][c.id][k] = nb[c.kind][c.id][k]
                   /\ \A kind \in RemoteKinds :
                          /\ Len(nb'[kind]) = Len(nb[kind])
                          /\ \A j \in DOMAIN nb[kind] :
                                 (kind # c.kind \/ j # c.id) =>
                                     nb'[kind][j] = nb[kind][j]

\* C11 (partial update): an update that apply issues for a device, module bay,
\* module or interface proposal belongs to an update proposal, carries only
\* fields of that proposal's diff, and changes nothing else: every other field
\* of the updated object (those the desired map does not mention and those
\* whose desired value already matched) and every other remote object keep
\* their previous value.
C11_UpdateWritesOnlyDiff == [][UpdateWithinDiff]_vars

\* C11: an interface update has been issued whose proposal wants more fields
\* than it changes, and whose payload is not empty
C11_PartialInterfaceUpdate ==
    /\ pc = "verify"
    /\ \E i \in DOMAIN calls, j \in DOMAIN batch.interfaces :
          /\ calls[i].op = "update" /\ calls[i].step = "interfaces"
          /\ batch.interfaces[j].action = "update"
          /\ InterfacesGet(nb0, device_record, batch.interfaces[j].identifier)
                = calls[i].id
          /\ DOMAIN calls[i].payload # {}
          /\ DOMAIN batch.interfaces[j].diff # DOMAIN batch.interfaces[j].desired

\* what a step of apply does for a noop proposal, and what a call whose plan
\* is all-noop has done so far
NoopWritesNothing ==
    /\ (/\ pc \in {"device", "module_bays", "modules", "interfaces", "lags"}
        /\ CurrentProposal.action = "noop")
       => (nb' = nb /\ calls' = calls)
    /\ (batch' # NoBatch /\ AllNoop(batch') /\ pc' # "idle")
       => (calls' = <<>> /\ nb' = nb0')

\* C12 (noop is read-only): the step of apply that handles a noop proposal
\* (device, bay, module, interface or LAG membership) issues no call and
\* leaves the remote state as it was; during and after an apply whose planned
\* batch is all-noop the call log is empty and the remote state equals the
\* state at the start of the call.
C12_NoopWritesNothing == [][NoopWritesNothing]_vars

\* C12: an apply whose plan held a noop device, bay, module, interface and LAG
\* proposal, and nothing else, has run to its end
C12_AllNoopApplied ==
    /\ pc = "done"
    /\ AllNoop(batch)
    /\ batch.module_bays # <<>> /\ batch.modules # <<>>
    /\ batch.interfaces # <<>> /\ batch.lags # <<>>
    /\ batch.lags[1].desired.members # <<>>
    /\ calls = <<>>
    /\ nb = nb0

\* the issues of kind k in a preflight report
IssuesOf(report, k) ==
    {i \in DOMAIN report.issues : report.issues[i].kind = k}

\* the module-type models the inventory names
ModelsOf(inv) ==
    {inv.modules[i].module_type_model : i \in
        {j \in DOMAIN inv.modules : Truthy(inv.modules[j].module_type_model)}}

\* the remote system holds a module type of model m, of the device's
\* manufacturer when that manufacturer is known remotely
RemoteMatch(nbv, inv, m) ==
    \E i \in DOMAIN nbv.module_types :
        /\ nbv.module_types[i].model = m
        /\ (inv.device.manufacturer_slug \in nbv.manufacturers
                => nbv.module_types[i].manufacturer = inv.device.manufacturer_slug)

\* what a dry run that returns d over remote state nbv must have reported
PreflightComplete(d, nbv, inv) ==
    LET report == d.summary.preflight
        device == inv.device
        manufacturer_absent == /\ Truthy(device.manufacturer_slug)
                               /\ device.manufacturer_slug \notin nbv.manufacturers
        device_type_absent ==
            \A t \in nbv.device_types : t.slug # device.device_type_slug
        missing == {m \in ModelsOf(inv) : ~RemoteMatch(nbv, inv, m)}
        listed == UNION {Range(report.issues[i].what) :
                            i \in IssuesOf(report, "module_types_not_found")}
    IN /\ d.error = NoError
       /\ d.batch = build(nbv, inv)
       /\ Len(d.summary.lines) = 5
       /\ manufacturer_absent <=>
            \E i \in IssuesOf(report, "manufacturer_not_found") :
                report.issues[i].what = <<device.manufacturer_slug>>
       /\ device_type_absent <=>
            \E i \in IssuesOf(report, "device_type_not_found") :
                report.issues[i].what = <<device.device_type_slug>>
       /\ listed = missing
       /\ \A m \in missing :
            Cardinality({<<i, j>> \in (DOMAIN report.issues) \X (DOMAIN ModelNames) :
                            /\ report.issues[i].kind = "module_types_not_found"
                            /\ j \in DOMAIN report.issues[i].what
                            /\ report.issues[i].what[j] = m}) = 1
       /\ (report.heading = "present") <=> (report.issues = <<>>)
       /\ (/\ Truthy(device.manufacturer_slug) /\ ~manufacturer_absent
           /\ ~device_type_absent /\ missing = {})
          => report.heading = "present"

DryRunReports ==
    (dry' # dry /\ dry' # NoDryRun)
    => PreflightComplete(dry', nb, _apply_suffixes(config, inventory))

\* C13 (preflight never blocks): every dry run returns without error the batch
\* of the plan and a five-line summary with a preflight block; the block lists
\* the manufacturer slug exactly when the remote system lacks it, the
\* device-type slug exactly when the remote system lacks it, and each
\* module-type model without a remote match exactly once; its heading says
\* that all are present exactly when it lists no issue, which is the case
\* whenever nothing is missing.
C13_PreflightReport == [][DryRunReports]_vars

\* C13: the sample inventory dry-run against a remote system that answers
\* like the simulation API: manufacturer, device type and both module types
\* are reported, nothing was written
C13_SampleAgainstSimulation ==
    /\ dry # NoDryRun
    /\ dry.output_path = None
    /\ dry.batch.device.identifier = inventory.device.name
    /\ dry.summary.preflight.heading = "issues"
    /\ dry.summary.preflight.issues =
          <<Issue("manufacturer_not_found", <<"nokia">>),
            Issue("device_type_not_found", <<"nokia-7750-sr">>),
            Issue("module_types_not_found", ModelNames)>>
    /\ nb = nb0

\* C13: two modules of one missing model, reported once
C13_TwinModelOnce ==
    /\ dry # NoDryRun
    /\ inventory = TwinModules
    /\ dry.summary.preflight.issues =
          <<Issue("module_types_not_found", <<ModelNames[1]>>)>>

\* the rule list the classifier consults for a category
RulesFor(engine, category) ==
    CASE category = "role_slug" -> engine.role_rules
      [] category = "site_slug" -> engine.site_rules
      [] category = "manufacturer_slug" -> engine.manufacturer_rules
      [] category = "device_type_slug" -> engine.device_type_rules
      [] OTHER -> <<>>

\* the positions of the rules whose pattern matches the candidate
MatchingRules(rules, candidate) ==
    {i \in DOMAIN rules : Search(rules[i].pattern, candidate).matched}

\* the value a rule derives from the candidate
Derived(rule, candidate) == RegexRule_apply(rule, candidate).value

\* the positions of the rules that derive a non-empty value
DerivingRules(rules, candidate) ==
    {i \in DOMAIN rules : TextTruthy(Derived(rules[i], candidate))}

Least(S) == CHOOSE i \in S : \A j \in S : i <= j

\* C14 (first match wins), as stated: when several rules of the list match the
\* candidate, each with a literal value or a template, the classification is
\* the value the earliest matching rule derives.
C14_FirstMatchWins ==
    LET rules == RulesFor(classified.engine, classified.category)
        matching == MatchingRules(rules, classified.candidate)
    IN (classified # NoClassification /\ classified.category \in DefaultKeys
            /\ Cardinality(matching) >= 2
            /\ \A i \in matching : \/ rules[i].value # NoText
                                     \/ rules[i].template # NoTemplate)
       => /\ classified.result.error = NoError
          /\ classified.result.value
                = Derived(rules[Least(matching)], classified.candidate)

\* C14 (first match wins), amended: the classification is the value of the
\* earliest rule in declaration order that matches and derives a non-empty
\* value; a matching rule that derives nothing or an empty text is passed
\* over, and no later rule's value replaces an earlier non-empty one.
C14_FirstDerivingRuleWins ==
    LET rules == RulesFor(classified.engine, classified.category)
        deriving == DerivingRules(rules, classified.candidate)
    IN (classified # NoClassification /\ classified.category \in DefaultKeys
            /\ deriving # {})
       => /\ classified.result.error = NoError
          /\ classified.result.value
                = Derived(rules[Least(deriving)], classified.candidate)
          /\ \A i \in MatchingRules(rules, classified.candidate) :
                i < Least(deriving)
                    => ~TextTruthy(Derived(rules[i], classified.candidate))

\* C14: two rules match a host name and derive different values; the
\* classification is the first one's
C14_TwoRulesMatch ==
    /\ classified # NoClassification
    /\ classified.category = "role_slug"
    /\ LET rules == classified.engine.role_rules
       IN /\ Len(rules) = 2
          /\ MatchingRules(rules, classified.candidate) = {1, 2}
          /\ TextTruthy(Derived(rules[1], classified.candidate))
          /\ TextTruthy(Derived(rules[2], classified.candidate))
          /\ Derived(rules[1], classified.candidate)
                # Derived(rules[2], classified.candidate)
          /\ classified.result.value = Derived(rules[1], classified.candidate)

\* C15 (default fallback): for role, site and manufacturer classification,
\* when no rule's pattern matches the candidate the answer is the configured
\* default, and without a default the call fails with an error that names the
\* category; whatever the rules, an answer is never empty or absent.
C15_DefaultFallback ==
    LET engine == classified.engine
        category == classified.category
        rules == RulesFor(engine, category)
        result == classified.result
    IN (/\ classified # NoClassification
        /\ category \in {"role_slug", "site_slug", "manufacturer_slug"})
       => /\ MatchingRules(rules, classified.candidate) = {} =>
                IF TextTruthy(engine.defaults[category])
                THEN /\ result.error = NoError
                     /\ result.value = engine.defaults[category]
                ELSE /\ result.error = Raise("ValueError", category)
                     /\ result.value = NoText
          /\ result.error = NoError => TextTruthy(result.value)

\* C15: rules are configured, none matches the host name, and the site is the
\* configured default
C15_DefaultReturned ==
    /\ classified # NoClassification
    /\ classified.category = "site_slug"
    /\ classified.engine.site_rules # <<>>
    /\ MatchingRules(classified.engine.site_rules, classified.candidate) = {}
    /\ TextTruthy(classified.engine.defaults["site_slug"])
    /\ classified.result =
          [error |-> NoError, value |-> classified.engine.defaults["site_slug"]]

\* the maximal runs of characters of [a-z0-9] in a text, in order
RECURSIVE Words(_, _)
Words(text, word) ==
    IF text = <<>> THEN (IF word = <<>> THEN <<>> ELSE <<word>>)
    ELSE IF Head(text) \in SlugChars
    THEN Words(Tail(text), Append(word, Head(text)))
    ELSE (IF word = <<>> THEN <<>> ELSE <<word>>) \o Words(Tail(text), <<>>)

\* the words joined by single hyphens
RECURSIVE Hyphenated(_)
Hyphenated(words) ==
    IF words = <<>> THEN <<>>
    ELSE IF Len(words) = 1 THEN words[1]
    ELSE words[1] \o <<"-">> \o Hyphenated(Tail(words))

\* C16 (slugify fallback): a device-type string that no device-type rule
\* matches, with no default configured, is classified without failure as its
\* slug: the string in lower case with every maximal run of characters
\* outside [a-z0-9] replaced by one hyphen and no hyphen at either end.
C16_SlugifyFallback ==
    (/\ classified # NoClassification
     /\ classified.category = "device_type_slug"
     /\ MatchingRules(classified.engine.device_type_rules,
                      classified.candidate) = {}
     /\ ~TextTruthy(classified.engine.defaults["device_type_slug"]))
    => /\ classified.result.error = NoError
       /\ classified.result.value
            = Hyphenated(Words(Lower(classified.candidate), <<>>))

\* C16: "Unknown Model 5000" with rules that do not match it and no default
\* is classified as "unknown-model-5000"
C16_UnknownModel5000 ==
    /\ classified # NoClassification
    /\ classified.category = "device_type_slug"
    /\ classified.engine.device_type_rules # <<>>
    /\ classified.engine.defaults["device_type_slug"] = NoText
    /\ classified.candidate =
          <<"U", "n", "k", "n", "o", "w", "n", " ", "M", "o", "d", "e", "l", " ",
            "5", "0", "0", "0">>
    /\ classified.result.value =
          <<"u", "n", "k", "n", "o", "w", "n", "-", "m", "o", "d", "e", "l", "-",
            "5", "0", "0", "0">>

-----------------------------------------------------------------------------
(* Properties of the harvester *)

Harvested == collected # NoHarvest /\ collected.result # NoHarvest

HasLabel(label) ==
    \E i \in DOMAIN collected.raw.chassis_detail :
        label \in DOMAIN collected.raw.chassis_detail[i]

\* C17: when the system-information output has no System Name line or no
\* System Type line, the harvest ends with an error and gives no inventory:
\* neither a partial one nor one whose device name or type is empty.
C17_MissingLabelAborts ==
    (Harvested /\ (~HasLabel("System Name") \/ ~HasLabel("System Type")))
        => /\ collected.result.error # NoError
           /\ collected.result.inventory = NoInventory

\* a harvest of an output that names the system but not its type has failed
C17_TypeLabelMissing ==
    /\ Harvested
    /\ HasLabel("System Name")
    /\ ~HasLabel("System Type")
    /\ collected.result.error = Raise("ValueError", "System Type")
    /\ collected.result.inventory = NoInventory

HasInventory(result) == result # NoHarvest /\ result.error = NoError

\* a sequence of named entries in strictly ascending order of name
NameSorted(entries) ==
    \A i, j \in DOMAIN entries :
        i < j => NameLess(entries[i].name, entries[j].name)

\* the last harvest and the one before the entries changed places
Reharvested ==
    /\ Harvested
    /\ collected.reordered
    /\ HasInventory(collected.result)
    /\ HasInventory(collected.previous)

\* C18: in a harvested inventory the module bays, the interfaces and the LAGs
\* are each in lexicographic order of name whatever the order of the entries
\* of the command outputs, and harvesting the same entries in another order
\* gives the identical inventory.
C18_OrderIndependent ==
    /\ (Harvested /\ HasInventory(collected.result))
          => /\ NameSorted(collected.result.inventory.module_bays)
             /\ NameSorted(collected.result.inventory.interfaces)
             /\ NameSorted(collected.result.inventory.lags)
    /\ Reharvested
          => collected.result.inventory = collected.previous.inventory

MembersOf(lag) == {lag.members[i] : i \in DOMAIN lag.members}

LagConsistent(inv) ==
    /\ \A l \in DOMAIN inv.lags : \A m \in MembersOf(inv.lags[l]) :
          \E i \in DOMAIN inv.interfaces :
              /\ inv.interfaces[i].name = m
              /\ inv.interfaces[i].lag = inv.lags[l].name
    /\ \A i \in DOMAIN inv.interfaces :
          inv.interfaces[i].lag # None
              => \E l \in DOMAIN inv.lags :
                    /\ inv.lags[l].name = inv.interfaces[i].lag
                    /\ inv.interfaces[i].name \in MembersOf(inv.lags[l])

\* C19: in every harvested inventory each member of a LAG is an interface
\* whose lag field names that LAG, and each interface whose lag field is set
\* is a member of the LAG of that name, also when the port listing puts one
\* port in two bundles.
C19_LagMembershipConsistent ==
    (Harvested /\ HasInventory(collected.result))
        => LagConsistent(collected.result.inventory)

\* C20: a harvested inventory holds at most one module per module-bay name,
\* also when the provisioned-type listing, the card listing and the slot
\* listing give one bay different models.
C20_OneModulePerBay ==
    (Harvested /\ HasInventory(collected.result))
        => \A i, j \in DOMAIN collected.result.inventory.modules :
              collected.result.inventory.modules[i].bay_name
                  = collected.result.inventory.modules[j].bay_name
              => i = j

-----------------------------------------------------------------------------
(* Properties of planning with suffixes *)

Suffixed(cfg, inv) ==
    /\ EndsWith(inv.device.name, cfg.device_name_suffix)
    /\ EndsWith(inv.device.device_type_slug, cfg.device_type_suffix)

\* C21: applying the suffixes to an inventory the suffixes were applied to
\* changes neither the device name nor the device-type slug, an inventory
\* whose name and slug end with the configured suffixes comes back with both
\* unchanged, and a plan made for an inventory targets the remote device the
\* plan for its suffixed form targets.
C21_SuffixIdempotent ==
    LET once == _apply_suffixes(config, inventory)
        twice == _apply_suffixes(config, once)
    IN /\ twice.device.name = once.device.name
       /\ twice.device.device_type_slug = once.device.device_type_slug
       /\ Suffixed(config, inventory) => once = inventory
       /\ dry # NoDryRun
             => /\ dry.batch.device.identifier = once.device.name
                /\ dry.batch.device.identifier
                      = plan(config, nb, once).device.identifier
                /\ dry.batch.device.current
                      = plan(config, nb, once).device.current

\* a dry run was made under both suffixes, and the inventory now carries them
C21_SuffixedResubmitted ==
    /\ config.device_name_suffix = "-lab"
    /\ config.device_type_suffix = "-sim"
    /\ dry # NoDryRun
    /\ dry.batch.device.identifier = "SIM-SROS-01-lab"
    /\ dry.batch.device.action = "update"
    /\ inventory.device.name = "SIM-SROS-01-lab"
    /\ inventory.device.device_type_slug = "nokia-7750-sr-sim"

-----------------------------------------------------------------------------
(* Properties of apply: dependencies, concurrency, frame *)

ApplyStarted == pc \in {"device", "module_bays", "modules", "interfaces", "lags", "verify", "done", "failed"}

ResolvedTypeExists ==
    \E t \in nb.device_types :
        t.slug = _apply_suffixes(config, inventory).device.device_type_slug

\* C22: when the device has a manufacturer slug and the remote device type
\* resolved for it has another manufacturer slug, or exposes no manufacturer,
\* apply fails and has issued no write.
C22_ManufacturerMismatchFatal ==
    LET device == _apply_suffixes(config, inventory).device
    IN (/\ ApplyStarted
        /\ Truthy(device.manufacturer_slug)
        /\ ResolvedTypeExists
        /\ DeviceTypeManufacturer(nb, device.device_type_slug)
              # device.manufacturer_slug)
           => pc = "failed" /\ calls = <<>>

\* the record the proposal of the step stands for, NoId when there is none
Target ==
    IF pc = "device" THEN DevicesGet(nb, batch.device.identifier)
    ELSE InterfacesGet(nb, device_record, batch.interfaces[idx].identifier)

\* the fields of a diff that a partial update writes as they are desired
PlainFields(p) ==
    IF p.diff = NoDict THEN {}
    ELSE DOMAIN p.diff
            \cap (IF p.model = "device" THEN DevicePayloadKeys
                  ELSE {"type", "enabled", "description"})

\* one step of apply on an update proposal, whatever was written meanwhile
WritesBlindly ==
    (/\ pc \in {"device", "interfaces"}
     /\ pc' # pc
     /\ CurrentProposal.action = "update"
     /\ Target # NoId)
        => /\ pc' # "failed"
           /\ error' = NoError
           /\ \A k \in DOMAIN nb[StepKind(pc)][Target] :
                 nb'[StepKind(pc)][Target][k] =
                    IF k \in PlainFields(CurrentProposal)
                    THEN CurrentProposal.desired[k]
                    ELSE nb[StepKind(pc)][Target][k]

\* C23: apply detects no conflict with another writer: a field of a
\* proposal's diff that the other writer changed after the plan was made is
\* overwritten with the desired value without an error, and a field outside
\* the diff keeps what the other writer wrote.
C23_NoConflictDetection == [][WritesBlindly]_vars

\* the other writer set the serial and the asset tag after the plan; the
\* device update then wrote the serial over and left the asset tag
C23_ClobberedAndSurvived ==
    /\ pc = "done"
    /\ error = NoError
    /\ nb0.devices # <<>>
    /\ nb0.devices[1].serial = None
    /\ nb.devices[1].serial = "SN1"
    /\ nb.devices[1].asset_tag = "A1"
    /\ \E i, j, l \in DOMAIN calls :
          /\ i < l /\ j < l
          /\ calls[i].step = "external" /\ calls[i].kind = "devices"
          /\ calls[i].payload = [k \in {"serial"} |-> "SN9"]
          /\ calls[j].step = "external" /\ calls[j].kind = "devices"
          /\ calls[j].payload = [k \in {"asset_tag"} |-> "A1"]
          /\ calls[l].step = "device" /\ calls[l].op = "update"
          /\ "serial" \in DOMAIN calls[l].payload
          /\ "asset_tag" \notin DOMAIN calls[l].payload

-----------------------------------------------------------------------------
(* Properties of the proposal file *)

Written == dry # NoDryRun /\ dry.document # NoDocument

\* C24: a batch written as a proposal file and read back gives, for every
\* proposal and in the same order, the action, model, identifier, desired,
\* current and diff it had; the absent diff of a noop and the absent current
\* of a create stay absent.
C24_ProposalFileRoundTrip ==
    Written =>
        /\ DOMAIN dry.document.proposals
              = {"device", "module_bays", "modules", "interfaces", "lags"}
        /\ ReadBatch(dry.document) = dry.batch
        /\ actions(ReadBatch(dry.document)) = actions(dry.batch)

\* a written batch with a create, an update and a noop, and a LAG with members
C24_MixedBatchWritten ==
    /\ Written
    /\ \E i, j, k \in DOMAIN actions(dry.batch) :
          /\ actions(dry.batch)[i].action = "noop"
          /\ actions(dry.batch)[i].diff = NoDict
          /\ actions(dry.batch)[j].action = "create"
          /\ actions(dry.batch)[j].current = NoDict
          /\ actions(dry.batch)[k].action = "update"
          /\ actions(dry.batch)[k].current # NoDict
    /\ \E l \in DOMAIN dry.batch.lags : dry.batch.lags[l].desired.members # <<>>

-----------------------------------------------------------------------------
(* Properties of the simulation API                                         *)

FakeQueries == {<<>>} \cup FakePayloads

FakeSlots == {<<e, i>> : e \in FakeEndpoints, i \in 1..MaxRecords + 1}

FakeHeld(api) == {s \in FakeSlots : s[2] \in DOMAIN api.records[s[1]]}

\* C25: on the simulation API create returns a record with an identifier no
\* other record has and whose serialize() is the payload, update merges the
\* given fields into the record, get returns absent and filter an empty
\* sequence on every endpoint whatever was created or updated, and a plan
\* computed against it is the plan against an empty remote state (every
\* proposal a create without a current state).
C25_FakeApiStaysEmpty ==
    /\ \A e \in FakeEndpoints, q \in FakeQueries :
          /\ _FakeEndpoint_get(nb, e, q) = NoId
          /\ _FakeEndpoint_filter(nb, e, q) = <<>>
    /\ \A s, t \in FakeHeld(nb) :
          s # t => nb.records[s[1]][s[2]].id # nb.records[t[1]][t[2]].id
    /\ calls # <<>> =>
          LET c == calls[1]
              held == {s \in FakeHeld(nb) : nb.records[s[1]][s[2]].id = c.record}
          IN /\ Cardinality(held) = 1
             /\ \A s \in held : s[1] = c.kind /\ nb.records[s[1]][s[2]].data = c.returned
             /\ c.op = "create" => c.returned = c.payload
             /\ c.op = "update" =>
                   /\ DOMAIN c.returned = DOMAIN c.before \cup DOMAIN c.payload
                   /\ \A k \in DOMAIN c.payload : c.returned[k] = c.payload[k]
                   /\ \A k \in DOMAIN c.before \ DOMAIN c.payload :
                         c.returned[k] = c.before[k]
    /\ batch # NoBatch =>
          /\ batch = plan(config, Remote({}, {}, {}, {}, <<>>, <<>>, <<>>, <<>>, <<>>), inventory)
          /\ \A i \in DOMAIN actions(batch) :
                /\ actions(batch)[i].action = "create"
                /\ actions(batch)[i].current = NoDict

\* a device record was created and then given another field, and the plan
\* was computed
C25_PlannedOverRecords ==
    /\ batch # NoBatch
    /\ calls # <<>>
    /\ calls[1].op = "update"
    /\ calls[1].kind = "devices"
    /\ calls[1].before = [name |-> "test-device"]
    /\ calls[1].returned = [name |-> "test-device", status |-> "active"]
    /\ Len(nb.records["devices"]) > 0

-----------------------------------------------------------------------------
(* Properties of the entry points                                           *)

Loaded == entry # NoEntry /\ entry.step # "load"

\* the variable the settings name, NETBOX_TOKEN when they name none
TokenVariable(netbox_section) ==
    IF "token_env" \in DOMAIN netbox_section /\ netbox_section.token_env # ""
    THEN netbox_section.token_env ELSE "NETBOX_TOKEN"

Provided(d, k) == k \in DOMAIN d /\ d[k] # ""

\* C26: load_app_config takes the token from the environment variable when
\* the environment provides one, else from the settings file when the file
\* provides one; when neither does it returns "SIMULATED-TOKEN" if
\* allow_missing_token is set and otherwise raises and returns no
\* configuration.
C26_TokenResolution ==
    Loaded =>
        LET variable == TokenVariable(entry.netbox_section)
            allow_missing_token == entry.point = "cli" /\ entry.simulate
        IN IF Provided(entry.environ, variable)
           THEN entry.loaded = [token |-> entry.environ[variable], error |-> NoError]
           ELSE IF Provided(entry.netbox_section, "token")
           THEN entry.loaded = [token |-> entry.netbox_section.token, error |-> NoError]
           ELSE IF allow_missing_token
           THEN entry.loaded = [token |-> "SIMULATED-TOKEN", error |-> NoError]
           ELSE /\ entry.loaded.error # NoError
                /\ entry.loaded.token = None
                /\ entry.step = "returned"
                /\ entry.outcome = Abort(entry.point)

\* environment and settings file both provide a token and the environment's
\* was taken
C26_EnvironmentWins ==
    /\ Loaded
    /\ entry.environ = [NETBOX_TOKEN |-> "env-token", MY_TOKEN |-> "my-token"]
    /\ entry.netbox_section = [token_env |-> "MY_TOKEN", token |-> "file-token"]
    /\ entry.loaded.token = "my-token"

Constructed == entry # NoEntry /\ entry.collector

PastFinally == entry # NoEntry /\ entry.step \in {"dry_run", "gate", "apply", "returned"}

DisconnectedOnce == entry # NoEntry /\ entry.disconnects = 1

CollectorHandled ==
    entry # NoEntry =>
        /\ entry.disconnects <= 1
        /\ ~entry.collector => entry.disconnects = 0
        /\ (entry.collector /\ PastFinally) => entry.disconnects = 1
        /\ entry.disconnect_raised # NoError =>
              /\ entry.uncaught = NoError
              /\ entry.outcome # "raised"
              /\ entry.caught = NoError =>
                    entry.step \in {"dry_run", "gate", "apply"} \/ entry.outcome # None
        /\ (entry.caught # NoError /\ PastFinally) =>
              /\ entry.step = "returned"
              /\ entry.outcome = Abort(entry.point)
              /\ entry.uncaught = NoError
              /\ entry.log # <<>>
              /\ entry.log[Len(entry.log)].level = "error"
              /\ entry.log[Len(entry.log)].failure = entry.caught

\* C27: in main and in run, once the collector is constructed disconnect is
\* called exactly once, after a successful harvest as after a failed connect
\* or harvest; what disconnect raises is passed over; and after a failed
\* collection the failure reported is the collection error and the entry
\* point aborts with its own abort outcome.
C27_DisconnectExactlyOnce == [](CollectorHandled) /\ (Constructed ~> DisconnectedOnce)

\* harvest failed on a connected collector, disconnect raised as well, and
\* the entry point returned
C27_FailedTwice ==
    /\ entry # NoEntry
    /\ entry.step = "returned"
    /\ entry.conn
    /\ entry.caught = Raise("ValueError", "System Type")
    /\ entry.disconnect_raised # NoError
    /\ entry.disconnects = 1

-----------------------------------------------------------------------------
(* Properties of the interface-type classification                          *)

IsLagName(name) == name \in Range(LagNames)

\* the pairs of the list whose pattern is found in the name
Matching(matches, name) == {i \in DOMAIN matches : name \in matches[i].pattern.names}

\* those of them the loop does not pass over
Usable(matches, name) ==
    {i \in Matching(matches, name) :
        matches[i].pattern.given /\ matches[i].type \notin {None, ""}}

\* the type of the first pair of a set of pairs, the default when it is empty
TypeOfFirst(matches, pairs, default) ==
    IF pairs = {} THEN default
    ELSE matches[CHOOSE i \in pairs : \A j \in pairs : i <= j].type

\* C28 as stated: a LAG gets the configured LAG type whatever its name and
\* the pattern list; any other interface gets the type of the first pair in
\* list order whose pattern matches its name, the physical default when none
\* matches.
C28_FirstMatchingPair ==
    (Harvested /\ HasInventory(collected.result)) =>
        \A i \in DOMAIN collected.result.inventory.interfaces :
            LET iface == collected.result.inventory.interfaces[i]
                rules == collected.interface_rules
            IN iface.type_slug =
                  IF IsLagName(iface.name) THEN rules.lag_default
                  ELSE TypeOfFirst(rules.matches, Matching(rules.matches, iface.name),
                                   rules.physical_default)

\* C28 amended: a LAG gets the configured LAG type whatever its name and the
\* pattern list; any other interface gets the type of the first pair in list
\* order that has a non-empty pattern and a non-empty type and whose pattern
\* matches its name, the physical default when there is no such pair.
C28_FirstUsablePair ==
    (Harvested /\ HasInventory(collected.result)) =>
        \A i \in DOMAIN collected.result.inventory.interfaces :
            LET iface == collected.result.inventory.interfaces[i]
                rules == collected.interface_rules
            IN iface.type_slug =
                  IF IsLagName(iface.name) THEN rules.lag_default
                  ELSE TypeOfFirst(rules.matches, Usable(rules.matches, iface.name),
                                   rules.physical_default)

\* a LAG whose name a pattern matches, a port two usable pairs match, and a
\* port whose first matching pair has an empty type
C28_AllCases ==
    /\ Harvested
    /\ HasInventory(collected.result)
    /\ LET rules == collected.interface_rules
           ifaces == Range(collected.result.inventory.interfaces)
       IN \E a, b, c \in ifaces :
             /\ IsLagName(a.name)
             /\ Matching(rules.matches, a.name) # {}
             /\ ~IsLagName(b.name)
             /\ Usable(rules.matches, b.name) # Matching(rules.matches, b.name)
             /\ Usable(rules.matches, b.name) # {}
             /\ ~IsLagName(c.name)
             /\ Cardinality(Usable(rules.matches, c.name)) = 2

-----------------------------------------------------------------------------
(* Properties of the proposal batch                                         *)

Planned == pc # "idle" /\ batch # NoBatch

\* how many elements of a sequence carry a name under a field
Count(s, field, name) == Cardinality({i \in DOMAIN s : s[i][field] = name})

\* C29: the batch build returns holds one device proposal and one proposal
\* for every module bay, module, interface and LAG of the inventory, each
\* with the identifier of its entity (bay:model for a module) and with the
\* model kind of its list; no entity is missing and none has more proposals
\* than it has entries in the inventory.
C29_OneProposalPerEntity ==
    Planned =>
        /\ batch.device.model = "device"
        /\ batch.device.identifier = inventory.device.name
        /\ Len(batch.module_bays) = Len(inventory.module_bays)
        /\ \A i \in DOMAIN batch.module_bays :
              /\ batch.module_bays[i].model = "module_bay"
              /\ batch.module_bays[i].identifier = inventory.module_bays[i].name
        /\ Len(batch.modules) = Len(inventory.modules)
        /\ \A i \in DOMAIN batch.modules :
              /\ batch.modules[i].model = "module"
              /\ batch.modules[i].identifier =
                    inventory.modules[i].bay_name \o ":"
                        \o inventory.modules[i].module_type_model
        /\ Len(batch.interfaces) = Len(inventory.interfaces)
        /\ \A i \in DOMAIN batch.interfaces :
              /\ batch.interfaces[i].model = "interface"
              /\ Count(batch.interfaces, "identifier", batch.interfaces[i].identifier)
                    = Count(inventory.interfaces, "name", batch.interfaces[i].identifier)
        /\ Len(batch.lags) = Len(inventory.lags)
        /\ \A i \in DOMAIN batch.lags :
              /\ batch.lags[i].model = "lag"
              /\ batch.lags[i].identifier = inventory.lags[i].name
        /\ Len(actions(batch)) =
              1 + Len(inventory.module_bays) + Len(inventory.modules)
                + Len(inventory.interfaces) + Len(inventory.lags)

\* a batch over an inventory with bays, modules, a LAG and two members, whose
\* interfaces build put in another order than the inventory's
C29_FullBatch ==
    /\ Planned
    /\ Len(inventory.module_bays) >= 2
    /\ Len(inventory.modules) >= 2
    /\ Len(inventory.lags) >= 1
    /\ Len(inventory.interfaces) >= 3
    /\ \E i \in DOMAIN inventory.interfaces :
          inventory.interfaces[i].name # batch.interfaces[i].identifier

-----------------------------------------------------------------------------
(* Properties of apply: what it leaves alone                                *)

\* every name the inventory mentions
InventoryNames ==
    {inventory.module_bays[i].name : i \in DOMAIN inventory.module_bays}
    \cup {inventory.modules[i].bay_name : i \in DOMAIN inventory.modules}
    \cup {inventory.interfaces[i].name : i \in DOMAIN inventory.interfaces}
    \cup {inventory.lags[i].name : i \in DOMAIN inventory.lags}
    \cup UNION {Range(inventory.lags[i].members) : i \in DOMAIN inventory.lags}

\* the name a remote record of the device goes by
RemoteName(nbv, kind, i) ==
    IF kind = "modules"
    THEN IF nbv.modules[i].module_bay = NoId THEN None
         ELSE nbv.module_bays[nbv.modules[i].module_bay].name
    ELSE nbv[kind][i].name

\* the records the device had when apply started that the inventory does not name
Unrelated(kind) ==
    LET device == DevicesGet(nb0, inventory.device.name)
    IN {i \in DOMAIN nb0[kind] :
           /\ device # NoId
           /\ nb0[kind][i].device = device
           /\ RemoteName(nb0, kind, i) \notin InventoryNames}

\* C30 as stated: apply leaves every remote module bay, module and interface
\* of the device that the inventory does not name exactly as it was, its LAG
\* reference included.
C30_UnrelatedUntouched ==
    pc # "idle" =>
        \A kind \in {"module_bays", "modules", "interfaces"} :
            \A i \in Unrelated(kind) :
                /\ i \in DOMAIN nb[kind]
                /\ nb[kind][i] = nb0[kind][i]

\* the remote interface was recorded as a member of a LAG the inventory lists
StaleMember(i) ==
    /\ nb0.interfaces[i].lag # NoId
    /\ nb0.interfaces[nb0.interfaces[i].lag].name
          \in {inventory.lags[j].name : j \in DOMAIN inventory.lags}

\* C30 amended: apply deletes no remote module bay, module or interface of
\* the device, and leaves every one the inventory does not name exactly as it
\* was, with one exception: an interface recorded as a member of a LAG the
\* inventory lists, and not named among that LAG's members, may have its LAG
\* reference cleared, its other fields staying as they were.
C30_UnrelatedKeptButStaleMembers ==
    pc # "idle" =>
        \A kind \in {"module_bays", "modules", "interfaces"} :
            \A i \in Unrelated(kind) :
                /\ i \in DOMAIN nb[kind]
                /\ \/ nb[kind][i] = nb0[kind][i]
                   \/ /\ kind = "interfaces"
                      /\ StaleMember(i)
                      /\ nb[kind][i] = [nb0[kind][i] EXCEPT !.lag = NoId]

\* apply has finished on a device that had a bay, a module, a spare port
\* and a stale LAG member the inventory does not name: the first three are
\* as they were and the stale member has left the LAG
C30_StaleMemberCleared ==
    /\ pc = "done"
    /\ Unrelated("module_bays") # {}
    /\ Unrelated("modules") # {}
    /\ \E i, j \in Unrelated("interfaces") :
          /\ nb0.interfaces[i].lag # NoId
          /\ nb.interfaces[i].lag = NoId
          /\ nb0.interfaces[j].description = "spare"
          /\ nb.interfaces[j] = nb0.interfaces[j]

-----------------------------------------------------------------------------
(* Properties of the inventory handed to plan, dry_run and apply            *)

\* a step in which dry_run returned or apply made its plan
CallerKeepsInventory ==
    (dry' # dry \/ (pc = "idle" /\ pc' = "resolve")) =>
        LET resolved == _apply_suffixes(config, inventory)
        IN /\ inventory' = inventory
           /\ pc' = "resolve" => batch'.device.identifier = resolved.device.name
           /\ dry' # NoDryRun => dry'.batch.device.identifier = resolved.device.name
           /\ ~Suffixed(config, inventory) =>
                 /\ resolved.device # inventory'.device
                 /\ resolved.module_bays = inventory'.module_bays
                 /\ resolved.modules = inventory'.modules
                 /\ resolved.interfaces = inventory'.interfaces
                 /\ resolved.lags = inventory'.lags

-----------------------------------------------------------------------------
(* Properties of apply: modules, LAG references, creates                    *)

\* the module types of the proposal's model, of the resolved manufacturer
\* when one was resolved
MatchingTypes(p) ==
    {i \in DOMAIN nb.module_types :
        /\ nb.module_types[i].model = p.desired.module_type_model
        /\ Truthy(dependencies.manufacturer)
              => nb.module_types[i].manufacturer = dependencies.manufacturer}

\* the proposal is a create, or its diff holds the module-type field
NeedsModuleType(p) ==
    \/ p.action = "create"
    \/ (p.diff # NoDict /\ "module_type_model" \in DOMAIN p.diff)

\* one step of the module pass
ModuleTypeLookup ==
    (pc = "modules" /\ (pc' # pc \/ idx' # idx)) =>
        LET p == batch.modules[idx]
        IN /\ ~NeedsModuleType(p) =>
                 /\ pc' # "failed"
                 /\ \A i \in DOMAIN NewCalls : "module_type" \notin DOMAIN NewCalls[i].payload
           /\ (NeedsModuleType(p) /\ MatchingTypes(p) = {}) =>
                 /\ pc' = "failed"
                 /\ nb' = nb
           /\ (NeedsModuleType(p) /\ MatchingTypes(p) # {}) =>
                 /\ error'.type # "module_type"
                 /\ pc' # "failed" =>
                       /\ Len(NewCalls) = 1
                       /\ NewCalls[1].payload.module_type = FirstId(MatchingTypes(p))

\* C32: a module proposal that is neither a create nor carries the
\* module-type field in its diff (an update of status or serial, a noop) is
\* applied without a module type and succeeds whatever module types exist;
\* a create or a change of the module type aborts apply when no module type
\* of the model and the resolved manufacturer exists, and takes the first
\* when several do.
C32_ModuleTypeLookupOnlyWhenNeeded == [][ModuleTypeLookup]_vars

\* the status of a module was updated although no module type of the
\* resolved manufacturer exists
C32_StatusUpdatedWithoutType ==
    /\ pc \in {"interfaces", "lags", "verify", "done"}
    /\ \E i \in DOMAIN calls :
          /\ calls[i].step = "modules"
          /\ calls[i].op = "update"
          /\ DOMAIN calls[i].payload = {"status"}
    /\ nb.module_types # <<>>
    /\ \A i \in DOMAIN nb.module_types :
          nb.module_types[i].manufacturer # dependencies.manufacturer

\* the fields an interface proposal writes from: desired for a create, the
\* diff for an update
WrittenFrom(p) ==
    IF p.action = "create" THEN p.desired
    ELSE IF p.action = "update" /\ p.diff # NoDict THEN p.diff
    ELSE <<>>

CarriesLag(p) == "lag" \in DOMAIN WrittenFrom(p) /\ Truthy(WrittenFrom(p).lag)

\* the interfaces of the device under apply that go by a name
NamedOnDevice(nbv, name) ==
    {i \in DOMAIN nbv.interfaces :
        /\ nbv.interfaces[i].device = device_record
        /\ nbv.interfaces[i].name = name}

\* one step of the interface pass on a proposal that carries a lag name
LagReferenceResolved ==
    (/\ pc = "interfaces"
     /\ pc' # pc \/ idx' # idx
     /\ CarriesLag(batch.interfaces[idx])
     /\ \/ batch.interfaces[idx].action = "create"
        \/ NamedOnDevice(nb, batch.interfaces[idx].identifier) # {}) =>
        LET p == batch.interfaces[idx]
            lag_name == WrittenFrom(p).lag
            known == lag_name \in DOMAIN interface_cache
                        \/ NamedOnDevice(nb, lag_name) # {}
        IN IF known
           THEN /\ pc' # "failed"
                /\ Len(NewCalls) = 1
                /\ NewCalls[1].op = p.action
                /\ NewCalls[1].payload.lag \in NamedOnDevice(nb, lag_name)
                /\ lag_name \in DOMAIN interface_cache
                      => NewCalls[1].payload.lag = interface_cache[lag_name]
           ELSE /\ pc' = "failed"
                /\ error'.type = "lag_reference"
                /\ nb' = nb
                /\ calls' = calls

\* C33: an interface create or update that carries a lag name writes the
\* identifier of the interface of that name on the same device, taken from
\* the cache of the call when it is there and from the remote system
\* otherwise; when neither knows the name apply fails and nothing is
\* written for that interface.
C33_UnresolvedLagIsFatal == [][LagReferenceResolved]_vars

\* apply failed on the create of a member whose LAG is neither cached nor
\* remote; the member was not written
C33_MemberNotWritten ==
    /\ pc = "failed"
    /\ error.type = "lag_reference"
    /\ \A i \in DOMAIN calls : calls[i].step # "interfaces"
    /\ NamedOnDevice(nb, batch.interfaces[idx].identifier) = {}
    /\ batch.interfaces[idx].action = "create"

-----------------------------------------------------------------------------
(* Properties of the LAG proposals                                          *)

\* the device the plan was made for, as the remote system held it then
PlannedDevice == DevicesGet(nb0, inventory.device.name)

\* the interface of the planned device that goes by a name, NoId when none
PlannedInterface(name) == InterfacesGet(nb0, PlannedDevice, name)

\* the names of the remote interfaces whose lag reference names the LAG
RemoteMembers(name) ==
    {nb0.interfaces[i].name :
        i \in InterfacesFilterLag(nb0, PlannedDevice, PlannedInterface(name))}

\* C34: for a LAG whose interface exists remotely the proposal is noop
\* exactly when the desired member set equals the set of remote interfaces
\* whose lag reference names the LAG, the empty set included, and update
\* otherwise; its desired members are the member names sorted, each once.
C34_LagNoopIffMembersEqual ==
    (Planned /\ PlannedDevice # NoId) =>
        \A i \in DOMAIN batch.lags :
            LET p == batch.lags[i]
                desired_set == Range(inventory.lags[i].members)
            IN PlannedInterface(p.identifier) # NoId =>
                  /\ p.action = "noop" <=> desired_set = RemoteMembers(p.identifier)
                  /\ p.action \in {"noop", "update"}
                  /\ p.desired.members = SortedNames(desired_set)

-----------------------------------------------------------------------------
(* Properties of the update gate                                            *)

\* the dry run came back with a batch
SummaryShown == entry # NoEntry /\ entry.dried

\* the batch holds an update the options do not allow
UpdateRefused ==
    SummaryShown /\ updates_present(entry.actions) /\ ~entry.update_existing

\* the entry point returned reporting a failure: exit status 1 of main, a
\* failure logged last by run
EndedInFailure ==
    /\ entry.step = "returned"
    /\ entry.outcome = Abort(entry.point)
    /\ entry.log # <<>>
    /\ entry.log[Len(entry.log)].level = "error"

ApplyNeverCalled == entry # NoEntry => entry.applies = 0

\* C35, as stated: whenever the dry-run batch holds an update and
\* update-existing is not set, builder.apply is not called and the run ends
\* in failure; and apply is not called without --apply/commit or in a
\* simulation.
C35_RefusedUpdateAlwaysFails ==
    entry # NoEntry =>
        /\ UpdateRefused =>
              /\ entry.applies = 0
              /\ entry.step = "returned" => EndedInFailure
        /\ (~entry.apply \/ entry.simulate) => entry.applies = 0

\* C35, amended: builder.apply is called at most once, and only with
\* --apply/commit set, outside a simulation, and with update-existing set
\* when the dry-run batch holds an update; when apply was asked for outside a
\* simulation and the batch holds an update that update-existing does not
\* allow, the run ends in failure; without --apply/commit such a run ends
\* as a plain dry run, and a simulation ends after its summary.
C35_UpdateGate ==
    entry # NoEntry =>
        /\ entry.applies <= 1
        /\ entry.applies = 1 =>
              /\ entry.apply
              /\ ~entry.simulate
              /\ SummaryShown
              /\ updates_present(entry.actions) => entry.update_existing
        /\ (UpdateRefused /\ entry.step = "returned") =>
              IF entry.apply /\ ~entry.simulate
              THEN EndedInFailure
              ELSE entry.outcome = Done(entry.point)
        /\ (SummaryShown /\ entry.step = "returned" /\ (~entry.apply \/ entry.simulate)) =>
              entry.outcome = Done(entry.point)

\* apply was asked for, the batch holds an update next to a create,
\* update-existing is off, and the run ended in failure without calling apply
C35_Refused ==
    /\ UpdateRefused
    /\ entry.apply
    /\ entry.actions = <<"update", "create">>
    /\ EndedInFailure
    /\ entry.applies = 0

-----------------------------------------------------------------------------
(* Properties of the collector's session                                    *)

SessionOpen(self) == self.conn # NoSession

\* what one call of the collector may do, by the call that was made
SessionStep ==
    LET before == collected
        after == collected'
        call == after.last
    IN /\ call.op = "harvest" =>
             /\ call.inventory # NoInventory =>
                   SessionOpen(before) /\ call.error = NoError
             /\ ~SessionOpen(before) =>
                   /\ call.error.type = "ConnectionError"
                   /\ call.inventory = NoInventory
                   /\ call.sent = 0
                   /\ after = [before EXCEPT !.last = call]
             /\ after.conn = before.conn
       /\ call.op = "disconnect" =>
             /\ ~SessionOpen(after)
             /\ after.host_name = NoText
             /\ after.device_type = NoText
             /\ call.error = NoError
             /\ after.closed = before.closed + (IF SessionOpen(before) THEN 1 ELSE 0)
             /\ ~SessionOpen(before) => after = [before EXCEPT !.last = call]
       /\ call.op = "connect_or_fail" =>
             /\ call.error = NoError => SessionOpen(after)
             /\ call.error # NoError => after = [before EXCEPT !.last = call]

\* with no session there is no cached name, and the session held is the one
\* opened last
SessionState ==
    /\ ~SessionOpen(collected) =>
          /\ collected.host_name = NoText
          /\ collected.device_type = NoText
    /\ SessionOpen(collected) =>
          collected.conn = collected.opened /\ collected.closed < collected.opened
    /\ collected.closed <= collected.opened
    /\ collected.last.inventory # NoInventory => SessionOpen(collected)

\* C36: over any sequence of connect_or_fail, harvest and disconnect calls,
\* harvest returns an inventory only while a session is open; before a
\* successful connect_or_fail and after disconnect it fails with a connection
\* error, sends no command and changes nothing; disconnect leaves the
\* collector without session, host name and device type; and a disconnect
\* without session closes nothing and changes nothing.
C36_SessionProtocol == [](SessionState) /\ [][SessionStep]_vars

\* a harvest returned an inventory, the session was closed, and the harvest
\* after that failed with the connection error
C36_HarvestAfterDisconnect ==
    /\ collected.delivered
    /\ collected.closed = 1
    /\ ~SessionOpen(collected)
    /\ collected.last.op = "harvest"
    /\ collected.last.error = Raise("ConnectionError", "Device not yet connected")
    /\ collected.last.sent = 0

-----------------------------------------------------------------------------
(* Properties of planning: the remote system is only read                   *)

ReadsOnly(requests) ==
    \A i \in DOMAIN requests : requests[i].op \in {"get", "filter"}

\* a step of dry_run, and the step in which apply plans
DryRunStep == pc = "idle" /\ pc' = "idle" /\ dry' # NoDryRun /\ dry' # dry
PlanStep == pc = "idle" /\ pc' = "resolve"

\* what plan and dry_run do to the remote system and what a plan made next
\* returns
PlanningReadsOnly ==
    /\ DryRunStep =>
          /\ ReadsOnly(dry'.requests)
          /\ nb' = nb
          /\ calls' = calls
          /\ dry'.batch = plan(config, nb', inventory')
    /\ PlanStep =>
          /\ ReadsOnly(build_requests(nb, _apply_suffixes(config, inventory)))
          /\ nb' = nb
          /\ calls' = <<>>
          /\ batch' = plan(config, nb', inventory')

-----------------------------------------------------------------------------
(* Properties of apply: one create per name and per bay                     *)

Distinct(seq) == \A i, j \in DOMAIN seq : seq[i] = seq[j] => i = j

\* what every harvested inventory has: bay names and interface names each
\* once, and no module twice with the same bay and model
Harvestable(inv) ==
    /\ Distinct([i \in DOMAIN inv.module_bays |-> inv.module_bays[i].name])
    /\ Distinct([i \in DOMAIN inv.interfaces |-> inv.interfaces[i].name])
    /\ Distinct([i \in DOMAIN inv.modules |->
                   <<inv.modules[i].bay_name, inv.modules[i].module_type_model>>])

\* the create calls of the running apply for one kind of object
Creates(kind) == {i \in DOMAIN calls : calls[i].op = "create" /\ calls[i].kind = kind}

CreatedOnce ==
    /\ \A i, j \in Creates("module_bays") :
          calls[i].payload.name = calls[j].payload.name => i = j
    /\ \A i, j \in Creates("interfaces") :
          calls[i].payload.name = calls[j].payload.name => i = j
    /\ \A i, j \in Creates("modules") :
          calls[i].payload.module_bay = calls[j].payload.module_bay => i = j

\* C38: with no other writer, and a remote system that holds no duplicate,
\* one apply of a harvested inventory issues at most one create per module-bay
\* name and per interface name and creates at most one module in any bay, and
\* once apply is through no bay holds two modules and no name is held by two
\* bays or two interfaces.
C38_OneCreatePerObject ==
    (Harvestable(inventory) /\ NoDuplicates(nb0) /\ ApplyStarted) =>
        /\ CreatedOnce
        /\ pc = "done" => NoDuplicates(nb)

-----------------------------------------------------------------------------
(* Properties of apply beside a writer that creates                         *)

\* the object a create call names is held by the remote system
ExistsRemotely(nbv, c) ==
    CASE c.kind = "devices" -> DevicesGet(nbv, c.payload.name) # NoId
      [] c.kind = "module_bays" ->
            ModuleBaysGet(nbv, c.payload.device, c.payload.name) # NoId
      [] c.kind = "modules" ->
            ModulesFilterBay(nbv, c.payload.device, c.payload.module_bay) # {}
      [] c.kind = "interfaces" ->
            InterfacesGet(nbv, c.payload.device, c.payload.name) # NoId
      [] OTHER -> FALSE

\* the creates apply issues in a step name nothing the remote system held
\* when the step began
CreatesOnlyTheAbsent ==
    \A i \in DOMAIN NewCalls :
        (NewCalls[i].op = "create" /\ NewCalls[i].step # "external") =>
            ~ExistsRemotely(nb, NewCalls[i])

\* C39: apply issues no create for a device, module bay, module or interface
\* that exists remotely when the call is made, also when another writer
\* created the object after the plan and before apply reached the proposal
\* planned as create.
C39_NoCreateOfExisting == [][CreatesOnlyTheAbsent]_vars

====
